---- MODULE Spec2Model ----
(***************************************************************************)
(* A model of the Milton (Microvision) emulation core: the TMS1100         *)
(* micro-processor of core/src/tms1100 (mod.rs, pla.rs, mem.rs, pinio.rs), *)
(* the Hughes 0488 LCD driver (display.rs), the Piezo buzzer (buzzer.rs)   *)
(* and the rotary controller (rotary.rs).                                  *)
(* Sub-byte integers (arbitrary_int u1..u11) are naturals kept within      *)
(* their width by the same masks the library applies.                      *)
(***************************************************************************)
EXTENDS Integers, FiniteSets, Sequences, TLC

(***************************************************************************)
(* Bounds of the model.                                                    *)
(***************************************************************************)
\* Clock calls explored from the first state of a run.
MaxTicks == 13

\* Clock calls of the five-instruction program LDX, LDP, TCY, SETR, RSTR.
ProgTicks == 30

\* Hughes0488::clock calls explored from the first state of a run.
MaxLcdTicks == 3

\* Calls to the buzzer (clock and sync) explored from the first state of a run.
MaxBuzzerCalls == 8

\* Rotary::clock calls explored from the first state of a run.
MaxRotaryCalls == 3

\* Console::clock calls explored from the first state of a run.
ConsoleTicks == 12

\* Clock calls from the third sub-cycle of one instruction through the third
\* sub-cycle of the next.
AdderTicks == 7

(***************************************************************************)
(* Bit arithmetic on naturals.                                             *)
(***************************************************************************)
RECURSIVE BitAnd(_, _)
BitAnd(a, b) ==
    IF a = 0 \/ b = 0 THEN 0
    ELSE (a % 2) * (b % 2) + 2 * BitAnd(a \div 2, b \div 2)

RECURSIVE BitOr(_, _)
BitOr(a, b) ==
    IF a = 0 THEN b
    ELSE IF b = 0 THEN a
    ELSE (IF a % 2 = 1 \/ b % 2 = 1 THEN 1 ELSE 0) + 2 * BitOr(a \div 2, b \div 2)

RECURSIVE BitXor(_, _)
BitXor(a, b) ==
    IF a = 0 THEN b
    ELSE IF b = 0 THEN a
    ELSE ((a + b) % 2) + 2 * BitXor(a \div 2, b \div 2)

\* The bitwise OR of a set of masks (a | b | c ...).
RECURSIVE OrAll(_)
OrAll(S) ==
    IF S = {} THEN 0
    ELSE LET m == CHOOSE x \in S : TRUE IN BitOr(m, OrAll(S \ {m}))

\* u4::reverse_bits
ReverseBits4(v) ==
    8 * (v % 2) + 4 * ((v \div 2) % 2) + 2 * ((v \div 4) % 2) + ((v \div 8) % 2)

\* UInt<T, BITS> << n when n < BITS: the shifted value under the type's mask.
ShlMasked(v, n, bits) == (v * 2^n) % 2^bits

\* UInt<T, BITS> << n in a build without overflow checks: the shift of the
\* underlying integer (tbits wide) takes n modulo tbits, then the mask applies.
ShlWrapping(v, n, tbits, bits) == ((v * 2^(n % tbits)) % 2^tbits) % 2^bits

\* UInt<T, BITS> << n can panic in a build with debug assertions when n >= BITS
\* (the library's own check, in the versions that have it).
ShlPanics(n, bits) == n >= bits

\* The shift of the underlying integer overflows when n >= its width: a panic
\* in every build with overflow checks.
ShlOverflows(n, tbits) == n >= tbits

(***************************************************************************)
(* pla.rs: the micro-instructions, Entry::decode and Fixed::decode.        *)
(***************************************************************************)
CKP == 1
YTP == 2
MTP == 4
ATN == 8
NATN == 16
MTN == 32
FTN == 64
CKN == 128
CIN == 256
NE == 512
C8 == 1024
STO == 2048
CKM == 4096
AUTA == 8192
AUTY == 16384
STSL == 32768

\* Entry::EMPTY
EMPTY == 0

\* Entry::enables::<M>
Enables(entry, M) == BitAnd(entry, M) # 0

\* Entry::decode
EntryDecode(op) ==
    CASE op = 0 -> OrAll({MTP, ATN, NE})
      [] op = 1 -> OrAll({MTP, NATN, CIN, C8})
      [] op = 2 -> OrAll({YTP, ATN, NE, STSL})
      [] op = 3 -> OrAll({MTP, STO, AUTA})
      [] op = 4 -> OrAll({YTP, FTN, C8, AUTY})
      [] op = 5 -> OrAll({YTP, CIN, C8, AUTY})
      [] op = 6 -> OrAll({ATN, MTP, C8, AUTA})
      [] op = 7 -> OrAll({MTP, FTN, C8, AUTA})
      [] op = 8 -> OrAll({CKP, AUTA})
      [] op = 14 -> OrAll({CKP, NE})
      [] op = 32 -> OrAll({ATN, AUTY})
      [] op = 33 -> OrAll({MTP, AUTA})
      [] op = 34 -> OrAll({MTP, AUTY})
      [] op = 35 -> OrAll({YTP, AUTA})
      [] op = 36 -> OrAll({STO, YTP, FTN, C8, AUTY})
      [] op = 37 -> OrAll({STO, YTP, CIN, C8, AUTY})
      [] op = 38 -> OrAll({STO, AUTA})
      [] op = 39 -> OrAll({STO})
      [] op \in 56..59 -> OrAll({CKP, CKN, MTP, NE})
      [] op = 60 -> OrAll({MTP, NATN, CIN, C8, AUTA})
      [] op = 61 -> OrAll({NATN, CIN, C8, AUTA})
      [] op = 62 -> OrAll({MTP, CIN, C8, AUTA})
      [] op = 63 -> OrAll({MTP, NE})
      [] op \in 64..79 -> OrAll({CKP, AUTY})
      [] op \in 80..95 -> OrAll({YTP, CKN, NE})
      [] op \in 96..111 -> OrAll({CKM, YTP, CIN, AUTY})
      [] op \in 112..126 -> OrAll({CKP, ATN, CIN, C8, AUTA})
      [] op = 127 -> OrAll({CKP, CIN, C8, AUTA})
      [] OTHER -> EMPTY

\* Mutant of FixedDecode: the historical BR range 0x80..=0xaf.
FixedDecodeOldBr(op) ==
    CASE op = 9 -> "Comx"
      [] op = 10 -> "Tdo"
      [] op = 11 -> "Comc"
      [] op = 12 -> "Rstr"
      [] op = 13 -> "Setr"
      [] op = 15 -> "Retn"
      [] op \in 48..51 -> "Sbit"
      [] op \in 52..55 -> "Rbit"
      [] op \in 16..31 -> "Ldp"
      [] op \in 40..47 -> "Ldx"
      [] op \in 128..175 -> "Br"
      [] op \in 192..255 -> "Call"
      [] OTHER -> "None"

\* Fixed::decode; "None" is Option::None.
FixedDecode(op) ==
    CASE op = 9 -> "Comx"
      [] op = 10 -> "Tdo"
      [] op = 11 -> "Comc"
      [] op = 12 -> "Rstr"
      [] op = 13 -> "Setr"
      [] op = 15 -> "Retn"
      [] op \in 48..51 -> "Sbit"
      [] op \in 52..55 -> "Rbit"
      [] op \in 16..31 -> "Ldp"
      [] op \in 40..47 -> "Ldx"
      [] op \in 128..191 -> "Br"
      [] op \in 192..255 -> "Call"
      [] OTHER -> "None"

(***************************************************************************)
(* mem.rs: segmented addresses.                                            *)
(***************************************************************************)
\* RomAddr::full, masked as Rom::read masks it (& 0x7ff).
RomFull(chapter, page, addr) ==
    BitOr(BitOr(ShlMasked(chapter, 10, 11), ShlMasked(page, 6, 11)), addr) % 2048

\* RamAddr::full with X shifted by three places
RamFullNarrow(x, y) == BitOr(x * 8, y) % 128

\* RamAddr::full, masked as Ram::read / Ram::write mask it (& 0x7f).
RamFull(x, y) == BitOr(x * 16, y) % 128

(***************************************************************************)
(* The state.                                                              *)
(***************************************************************************)
VARIABLES
    r,            \* Tms1100::r, the 11-bit pin output
    o,            \* Tms1100::o, the 5-bit pin output
    k,            \* Tms1100::k, the 4-bit pin input
    adder,        \* Tms1100::adder: p, n, output, carry_in, status_out
    flags,        \* Tms1100::flags: call, status
    regs,         \* Tms1100::regs: a, x, y, pc, sr, pa, pb, ca, cb, cs
    cycle,        \* Tms1100::cycle, On0..On5 as 0..5
    opcode,       \* Tms1100::opcode
    fixed,        \* Tms1100::fixed
    micro,        \* Tms1100::micro
    constant,     \* Tms1100::constant
    ram_data,     \* Tms1100::ram_data
    cki_data,     \* Tms1100::cki_data
    ram,          \* Ram::data
    rom,          \* Rom::data, the bytes of the image read so far
    rom_bytes,    \* the byte values the cartridge image is made of
    debug,        \* the build has debug assertions / overflow checks
    budget,       \* the clock calls the host makes in this run
    panicked,     \* a clock call has panicked
    ticks,        \* completed clock calls
    addr_bus,     \* the address of the latest Rom::read (-1: none yet)
    snap,         \* the state in which the current instruction entered On0
    call_open,    \* a CALL was taken and no RETN has executed since
    saved,        \* what the latest CALL taken with the latch clear saved
    pc_seen,      \* the PC values since PC was last loaded
    pc_steps,     \* the next_pc steps since PC was last loaded
    lcd,          \* Hughes0488: data, pulse, not_clock, latches, counter, row, col
    lcd_was,      \* the driver before the latest Hughes0488::clock
    lcd_in,       \* the arguments of the latest Hughes0488::clock
    pixels,       \* the enable_pixel calls of the latest Hughes0488::clock
    lcd_ticks,    \* completed Hughes0488::clock calls
    loaded,       \* the nibbles presented so far by the latch load sequence
    now,          \* the time, in microseconds, of the latest clock call
    buzzer,       \* Buzzer: pulse, pulse_times, start, end
    buzzer_was,   \* the buzzer before the latest Buzzer::sync
    sound,        \* the frontend calls of the latest Buzzer::sync, in order
    synced,       \* the latest call to the buzzer was Buzzer::sync
    sync_panicked, \* the latest Buzzer::sync panicked
    buzzer_calls, \* calls made to the buzzer
    level,        \* the level of the buzzer line at the latest tick
    edges,        \* the times the buzzer line rose since the latest sync
    rotary,       \* Rotary: charge_end, charge
    rotary_was,   \* the rotary controller before the latest Rotary::clock
    rotary_in,    \* the arguments of the latest Rotary::clock
    rotary_calls, \* completed Rotary::clock calls
    charge_info,  \* the cartridge's ChargeInfo: offset, scale
    rotary_enabled, \* the cartridge's rotary_enabled flag
    output_pla,   \* the cartridge's OutputPla
    keyboard,     \* the keys, as (row, col), held down at the latest Console::clock
    chip_was,     \* the chip's data before the latest call of the host on it
    call          \* that call: its name, its arguments and how it ended

cpu == <<r, o, k, adder, flags, regs, cycle, opcode, fixed, micro, constant,
         ram_data, cki_data>>
core == <<adder, flags, regs, cycle, opcode, fixed, micro, constant, ram_data,
          cki_data>>
settings == <<rom_bytes, debug, budget, rotary_enabled, output_pla>>
host == <<chip_was, call>>
env == <<settings, host>>
obs == <<addr_bus, snap, call_open, saved, pc_seen, pc_steps>>
chip == <<cpu, ram, rom, env, panicked, ticks, obs>>
display == <<lcd, lcd_was, lcd_in, pixels, lcd_ticks, loaded>>
piezo == <<buzzer, buzzer_was, sound, synced, sync_panicked, buzzer_calls,
           level, edges>>
paddle == <<rotary, rotary_was, rotary_in, rotary_calls, charge_info>>
devices == <<display, piezo, paddle, now, keyboard>>
vars == <<chip, devices>>

(***************************************************************************)
(* Inputs.                                                                 *)
(***************************************************************************)
\* The values the console may drive onto the K pins after a clock call.
KIn == {5, 10}

\* RAM at power-on: Ram::new (zeroed) or Ram::fill_random (any nibbles).
RamZero == [i \in 0..127 |-> 0]
RamMixed == [i \in 0..127 |-> (7 * i + 3) % 16]
RamInits == {RamZero, RamMixed}

\* Every byte value.
AllBytes == 0..255

\* The opcodes of the programs run from an instruction boundary: YNEA, TKA,
\* COMC, SETR, RETN, LDP 9, SBIT 0, TCY 11, CLA, BR 5, CALL 10.
RunBytes == {2, 8, 11, 13, 15, 25, 48, 77, 127, 133, 202}

(***************************************************************************)
(* mod.rs: Adder.                                                          *)
(***************************************************************************)
\* Adder::new
AdderNew == [p |-> 0, n |-> 0, output |-> 0, carry_in |-> FALSE, status_out |-> FALSE]

\* Adder::reset
AdderReset == [AdderNew EXCEPT !.status_out = TRUE]

\* Mutant of AdderClock: the sum is not wrapped into four bits.
AdderClockWide(ad, carry_to_status, compare_to_status) ==
    LET carry_in == IF ad.carry_in THEN 1 ELSE 0
        c == ad.p + ad.n + carry_in > 15
        s1 == IF carry_to_status THEN ad.status_out /\ c ELSE ad.status_out
        s2 == IF compare_to_status THEN s1 /\ ad.p # ad.n ELSE s1
    IN [ad EXCEPT !.output = ad.p + ad.n + carry_in, !.status_out = s2]

\* Adder::clock with the carry of the second addition dropped
AdderClockFirstCarry(ad, carry_to_status, compare_to_status) ==
    LET carry_in == IF ad.carry_in THEN 1 ELSE 0
        c1 == ad.p + ad.n > 15
        s1 == IF carry_to_status THEN ad.status_out /\ c1 ELSE ad.status_out
        s2 == IF compare_to_status THEN s1 /\ ad.p # ad.n ELSE s1
    IN [ad EXCEPT !.output = (ad.p + ad.n + carry_in) % 16, !.status_out = s2]

\* Adder::clock
AdderClock(ad, carry_to_status, compare_to_status) ==
    LET carry_in == IF ad.carry_in THEN 1 ELSE 0
        c1 == ad.p + ad.n > 15
        res1 == (ad.p + ad.n) % 16
        c2 == res1 + carry_in > 15
        res == (res1 + carry_in) % 16
        s1 == IF carry_to_status THEN ad.status_out /\ (c1 \/ c2) ELSE ad.status_out
        s2 == IF compare_to_status THEN s1 /\ ad.p # ad.n ELSE s1
    IN [ad EXCEPT !.output = res, !.status_out = s2]

(***************************************************************************)
(* mod.rs: Cycle.                                                          *)
(***************************************************************************)
\* Mutant of CycleNext: the idle On3 is skipped.
CycleNextSkip(c) ==
    CASE c = 0 -> 1
      [] c = 1 -> 2
      [] c = 2 -> 4
      [] c = 3 -> 4
      [] c = 4 -> 5
      [] c = 5 -> 0

\* Cycle::next
CycleNext(c) ==
    CASE c = 0 -> 1
      [] c = 1 -> 2
      [] c = 2 -> 3
      [] c = 3 -> 4
      [] c = 4 -> 5
      [] c = 5 -> 0

(***************************************************************************)
(* mod.rs: Tms1100.                                                        *)
(***************************************************************************)
\* Registers as Tms1100::new sets them
RegsNew == [a |-> 0, x |-> 0, y |-> 0, pc |-> 0, sr |-> 0, pa |-> 0, pb |-> 0,
            ca |-> 0, cb |-> 0, cs |-> 0]

\* Tms1100::next_pc with the feedback bit the inverted XOR of the two
\* highest bits
NextPcXnor(pc) ==
    LET shifted == ShlMasked(pc, 1, 6)
        xnor == 1 - (((shifted \div 32) + (pc \div 32)) % 2)
        feedback == IF pc = 63 \div 2 THEN 1
                    ELSE IF pc = 63 THEN 0
                    ELSE xnor
    IN BitOr(shifted, feedback)

\* Tms1100::next_pc
NextPc(pc) ==
    LET shifted == ShlMasked(pc, 1, 6)
        anded == BitAnd(shifted \div 32, pc \div 32)
        feedback == IF pc = 63 \div 2 THEN 1
                    ELSE IF pc = 63 THEN 0
                    ELSE anded
    IN BitOr(shifted, feedback)

\* Tms1100::next_opcode: the address handed to Rom::read
FetchAddr(rg) == RomFull(rg.cs, rg.pa, rg.pc)

\* Tms1100::next_opcode: the constant of an opcode
OpConstant(op) == ReverseBits4(BitAnd(op, 15))

\* Tms1100::read_cki: the shift amount of the bit selector
CkiShift(c) == BitXor(c \div 4, 15)

\* Tms1100::read_cki: opcode & 0xf8
CkiGroup(op) == BitAnd(op, 248)

\* Tms1100::read_cki can panic: the selector shifts a u4 by 12..15
CkiPanics(op, c) == CkiGroup(op) \in {48, 56} /\ ShlPanics(CkiShift(c), 4)

\* Mutant of ReadCki: the 00001XXX group reads the constant, not the K pins.
ReadCkiConstant(op, c, kpins) ==
    CASE CkiGroup(op) \in {48, 56} -> ShlWrapping(1, CkiShift(c), 8, 4)
      [] CkiGroup(op) \in {0, 8, 64, 72, 80, 88, 96, 104, 112, 120} -> c
      [] OTHER -> 0

\* Tms1100::read_cki
ReadCki(op, c, kpins) ==
    CASE CkiGroup(op) = 8 -> kpins
      [] CkiGroup(op) \in {48, 56} -> ShlWrapping(1, CkiShift(c), 8, 4)
      [] CkiGroup(op) \in {0, 64, 72, 80, 88, 96, 104, 112, 120} -> c
      [] OTHER -> 0

\* Mutant of Exec0Regs: CALL does not put the caller's page into PB.
Exec0RegsKeepPb(fx, fl, rg, op) ==
    CASE fx = "Br" /\ fl.status ->
            [rg EXCEPT !.pa = IF ~fl.call THEN rg.pb ELSE @,
                       !.ca = rg.cb,
                       !.pc = BitAnd(op, 63)]
      [] fx = "Call" /\ fl.status ->
            [rg EXCEPT !.sr = IF ~fl.call THEN rg.pc ELSE @,
                       !.pa = IF ~fl.call THEN rg.pb ELSE @,
                       !.cs = IF ~fl.call THEN rg.ca ELSE @,
                       !.ca = rg.cb,
                       !.pc = BitAnd(op, 63)]
      [] fx = "Retn" ->
            [rg EXCEPT !.pc = IF fl.call THEN rg.sr ELSE @,
                       !.ca = IF fl.call THEN rg.cs ELSE @,
                       !.pa = rg.pb]
      [] OTHER -> rg

\* Tms1100::exec_0 with a CALL that saves the return address whatever the
\* call latch holds
Exec0RegsResave(fx, fl, rg, op) ==
    CASE fx = "Br" /\ fl.status ->
            [rg EXCEPT !.pa = IF ~fl.call THEN rg.pb ELSE @,
                       !.ca = rg.cb,
                       !.pc = BitAnd(op, 63)]
      [] fx = "Call" /\ fl.status ->
            [rg EXCEPT !.sr = rg.pc, !.pa = rg.pb, !.cs = rg.ca,
                       !.ca = rg.cb, !.pb = rg.pa, !.pc = BitAnd(op, 63)]
      [] fx = "Retn" ->
            [rg EXCEPT !.pc = IF fl.call THEN rg.sr ELSE @,
                       !.ca = IF fl.call THEN rg.cs ELSE @,
                       !.pa = rg.pb]
      [] OTHER -> rg

\* Tms1100::exec_0: the branch, call and return part, on the registers
Exec0Regs(fx, fl, rg, op) ==
    CASE fx = "Br" /\ fl.status ->
            [rg EXCEPT !.pa = IF ~fl.call THEN rg.pb ELSE @,
                       !.ca = rg.cb,
                       !.pc = BitAnd(op, 63)]
      [] fx = "Call" /\ fl.status ->
            [rg EXCEPT !.sr = IF ~fl.call THEN rg.pc ELSE @,
                       !.pa = IF ~fl.call THEN rg.pb ELSE @,
                       !.cs = IF ~fl.call THEN rg.ca ELSE @,
                       !.ca = rg.cb,
                       !.pb = rg.pa,
                       !.pc = BitAnd(op, 63)]
      [] fx = "Retn" ->
            [rg EXCEPT !.pc = IF fl.call THEN rg.sr ELSE @,
                       !.ca = IF fl.call THEN rg.cs ELSE @,
                       !.pa = rg.pb]
      [] OTHER -> rg

\* Mutant of Exec0Flags: CALL sets the call latch without looking at SL.
Exec0FlagsAnyCall(fx, fl) ==
    CASE fx = "Call" -> [fl EXCEPT !.call = TRUE]
      [] fx = "Retn" -> [fl EXCEPT !.call = FALSE]
      [] OTHER -> fl

\* Tms1100::exec_0: the branch, call and return part, on the flags
Exec0Flags(fx, fl) ==
    CASE fx = "Call" /\ fl.status -> [fl EXCEPT !.call = TRUE]
      [] fx = "Retn" -> [fl EXCEPT !.call = FALSE]
      [] OTHER -> fl

\* Tms1100::exec_1
Exec1Adder(ad, mi, rg, cki, mem) ==
    LET n1 == IF Enables(mi, FTN) THEN BitOr(ad.n, 15) ELSE ad.n
        n2 == IF Enables(mi, ATN) THEN BitOr(n1, rg.a) ELSE n1
        n3 == IF Enables(mi, NATN) THEN BitOr(n2, 15 - rg.a) ELSE n2
        n4 == IF Enables(mi, CKN) THEN BitOr(n3, cki) ELSE n3
        n5 == IF Enables(mi, MTN) THEN BitOr(n4, mem) ELSE n4
        p1 == IF Enables(mi, CKP) THEN BitOr(ad.p, cki) ELSE ad.p
        p2 == IF Enables(mi, MTP) THEN BitOr(p1, mem) ELSE p1
        p3 == IF Enables(mi, YTP) THEN BitOr(p2, rg.y) ELSE p2
    IN [ad EXCEPT !.n = n5, !.p = p3,
                  !.carry_in = IF Enables(mi, CIN) THEN TRUE ELSE @]

\* Tms1100::exec_2: the R bit index of SETR and RSTR
RIndex(rg) == BitOr(ShlMasked(rg.x \div 4, 4, 8), rg.y)

\* Tms1100::exec_2: SETR and RSTR can panic, the index reaching 11 or more
Exec2Panics(fx, rg) == fx \in {"Rstr", "Setr"} /\ ShlPanics(RIndex(rg), 11)

\* Tms1100::exec_2: ram_data after CKM and STO
Exec2Store(mi, mem, cki, rg) ==
    LET m1 == IF Enables(mi, CKM) THEN cki ELSE mem
    IN IF Enables(mi, STO) THEN rg.a ELSE m1

\* Tms1100::exec_2: ram_data after the fixed instruction
Exec2RamData(fx, mem, cki) ==
    CASE fx = "Rbit" -> BitAnd(mem, cki)
      [] fx = "Sbit" -> BitOr(mem, BitXor(cki, 15))
      [] OTHER -> mem

\* Tms1100::exec_2: the registers after the fixed instruction
Exec2Regs(fx, rg, c) ==
    CASE fx = "Comc" -> [rg EXCEPT !.cb = BitXor(@, 1)]
      [] fx = "Comx" -> [rg EXCEPT !.x = BitXor(@, 7)]
      [] fx = "Ldp" -> [rg EXCEPT !.pb = c]
      [] fx = "Ldx" -> [rg EXCEPT !.x = c \div 2]
      [] OTHER -> rg

\* exec_2 with SETR inverting the R bit instead of setting it
Exec2RToggle(fx, rg, rv) ==
    CASE fx = "Rstr" -> BitAnd(rv, BitXor(ShlWrapping(1, RIndex(rg), 16, 11), 2047))
      [] fx = "Setr" -> BitXor(rv, ShlWrapping(1, RIndex(rg), 16, 11))
      [] OTHER -> rv

\* Tms1100::exec_2: R after the fixed instruction
Exec2R(fx, rg, rv) ==
    CASE fx = "Rstr" -> BitAnd(rv, BitXor(ShlWrapping(1, RIndex(rg), 16, 11), 2047))
      [] fx = "Setr" -> BitOr(rv, ShlWrapping(1, RIndex(rg), 16, 11))
      [] OTHER -> rv

\* Tms1100::exec_2 putting the status latch in bit 4 of O
Exec2OHigh(fx, fl, rg, ov) ==
    IF fx = "Tdo" THEN (IF fl.status THEN 16 ELSE 0) + rg.a ELSE ov

\* Tms1100::exec_2: O after the fixed instruction
Exec2O(fx, fl, rg, ov) ==
    IF fx = "Tdo" THEN BitOr(IF fl.status THEN 1 ELSE 0, rg.a) ELSE ov

\* Tms1100::exec_4: the registers after AUTA and AUTY
Exec4Regs(mi, rg, ad) ==
    [rg EXCEPT !.a = IF Enables(mi, AUTA) THEN ad.output ELSE @,
               !.y = IF Enables(mi, AUTY) THEN ad.output ELSE @]

\* Mutant of Exec4Flags: the adder's status is latched whatever the entry.
Exec4FlagsAlways(mi, fl, ad) == [fl EXCEPT !.status = ad.status_out]

\* Tms1100::exec_4 latching the status under C8 as well as under STSL
Exec4FlagsCarry(mi, fl, ad) ==
    [fl EXCEPT !.status = IF Enables(mi, STSL) \/ Enables(mi, C8)
                          THEN ad.status_out ELSE @]

\* Tms1100::exec_4: the flags after STSL
Exec4Flags(mi, fl, ad) ==
    [fl EXCEPT !.status = IF Enables(mi, STSL) THEN ad.status_out ELSE @]

(***************************************************************************)
(* common.rs: Line.                                                        *)
(***************************************************************************)
\* Line::update_rising: the line takes the other's level; a 0 -> 1
\* transition is reported
UpdateRising(line, other) == [rising |-> ~line /\ other, line |-> other]

(***************************************************************************)
(* display.rs: the Hughes 0488 LCD driver.                                 *)
(***************************************************************************)
\* Hughes0488::new
Hughes0488New ==
    [data |-> 0, pulse |-> FALSE, not_clock |-> FALSE,
     latches |-> [i \in 0..7 |-> 0], counter |-> 0, row |-> 0, col |-> 0]

\* the fold with the nibbles taken from the last latch to the first
FoldLatchesReversed(l, from) ==
    LET step(acc, x) == BitOr((acc * 16) % 65536, x)
    IN step(step(step(step(0, l[from + 3]), l[from + 2]), l[from + 1]), l[from])

\* Hughes0488::clock: latches[from .. from + 4] folded into a u16,
\* (acc << 4) | x from the first latch to the last
FoldLatches(l, from) ==
    LET step(acc, x) == BitOr((acc * 16) % 65536, x)
    IN step(step(step(step(0, l[from]), l[from + 1]), l[from + 2]), l[from + 3])

\* the pixel loops with the row bit taken as x and the column bit as y
EnabledPixelsSwapped(row, col) ==
    IF row = 0 \/ col = 0 THEN {}
    ELSE {<<y, x>> : x \in {x \in 0..15 : (col \div (2 ^ x)) % 2 # 0},
                     y \in {y \in 0..15 : (row \div (2 ^ y)) % 2 # 0}}

\* Hughes0488::clock: the enable_pixel(x, y) calls made for a row and column
EnabledPixels(row, col) ==
    IF row = 0 \/ col = 0 THEN {}
    ELSE {<<x, y>> : x \in {x \in 0..15 : (col \div (2 ^ x)) % 2 # 0},
                     y \in {y \in 0..15 : (row \div (2 ^ y)) % 2 # 0}}

\* Hughes0488::clock with the latch counter following the level of not_clock
Hughes0488ClockLevel(l, data, pulse, not_clock) ==
    LET counted == IF not_clock THEN (l.counter + 1) % 8 ELSE l.counter
        latched == IF ~not_clock THEN [l.latches EXCEPT ![counted % 8] = data]
                   ELSE l.latches
        moves == pulse /\ not_clock
        row == IF moves THEN FoldLatches(latched, 0) ELSE l.row
        col == IF moves THEN FoldLatches(latched, 4) ELSE l.col
        returns == moves /\ (row = 0 \/ col = 0)
    IN [data |-> l.data, pulse |-> pulse, not_clock |-> not_clock,
        latches |-> latched, row |-> row, col |-> col,
        counter |-> IF pulse /\ ~returns THEN 0 ELSE counted]

\* Hughes0488::clock with the pulse resetting the counter ahead of the latch write
Hughes0488ClockResetFirst(l, data, pulse, not_clock) ==
    LET edge == UpdateRising(l.not_clock, not_clock)
        counted == IF edge.rising THEN (l.counter + 1) % 8 ELSE l.counter
        at == IF pulse THEN 0 ELSE counted
        latched == IF ~edge.line THEN [l.latches EXCEPT ![at] = data]
                   ELSE l.latches
        moves == pulse /\ edge.line
        row == IF moves THEN FoldLatches(latched, 0) ELSE l.row
        col == IF moves THEN FoldLatches(latched, 4) ELSE l.col
        returns == moves /\ (row = 0 \/ col = 0)
    IN [data |-> l.data, pulse |-> pulse, not_clock |-> edge.line,
        latches |-> latched, row |-> row, col |-> col,
        counter |-> IF pulse /\ ~returns THEN 0 ELSE counted]

\* Hughes0488::clock: the driver after the call.  The early return taken
\* when the row or the column is zero leaves the function before the
\* counter is reset.
Hughes0488Clock(l, data, pulse, not_clock) ==
    LET edge == UpdateRising(l.not_clock, not_clock)
        counted == IF edge.rising THEN (l.counter + 1) % 8 ELSE l.counter
        latched == IF ~edge.line THEN [l.latches EXCEPT ![counted % 8] = data]
                   ELSE l.latches
        moves == pulse /\ edge.line
        row == IF moves THEN FoldLatches(latched, 0) ELSE l.row
        col == IF moves THEN FoldLatches(latched, 4) ELSE l.col
        returns == moves /\ (row = 0 \/ col = 0)
    IN [data |-> l.data, pulse |-> pulse, not_clock |-> edge.line,
        latches |-> latched, row |-> row, col |-> col,
        counter |-> IF pulse /\ ~returns THEN 0 ELSE counted]

(***************************************************************************)
(* common.rs: Ms.                                                          *)
(***************************************************************************)
\* Ms::is_before
IsBefore(t, other) == t <= other

\* Ms::elapsed panics, its assertion failing
ElapsedPanics(t, end) == ~IsBefore(t, end)

\* Ms::elapsed, where it does not panic
Elapsed(t, end) == end - t

(***************************************************************************)
(* buzzer.rs: the Piezo buzzer.                                            *)
(***************************************************************************)
\* Buzzer::new
BuzzerNew == [pulse |-> FALSE, pulse_times |-> 0, start |-> 0, end |-> 0]

\* Buzzer::clock counting every call in which the line is high
BuzzerClockLevel(b, pulse, current_time) ==
    IF pulse
    THEN [pulse |-> pulse,
          pulse_times |-> b.pulse_times + 1,
          start |-> IF b.pulse_times = 0 THEN current_time ELSE b.start,
          end |-> IF b.pulse_times = 0 THEN b.end ELSE current_time]
    ELSE [b EXCEPT !.pulse = pulse]

\* Buzzer::clock with the first edge stored as the end and the later ones
\* as the start
BuzzerClockSwapped(b, pulse, current_time) ==
    LET edge == UpdateRising(b.pulse, pulse)
    IN IF edge.rising
       THEN [pulse |-> edge.line,
             pulse_times |-> b.pulse_times + 1,
             start |-> IF b.pulse_times = 0 THEN b.start ELSE current_time,
             end |-> IF b.pulse_times = 0 THEN current_time ELSE b.end]
       ELSE [b EXCEPT !.pulse = edge.line]

\* Buzzer::clock
BuzzerClock(b, pulse, current_time) ==
    LET edge == UpdateRising(b.pulse, pulse)
    IN IF edge.rising
       THEN [pulse |-> edge.line,
             pulse_times |-> b.pulse_times + 1,
             start |-> IF b.pulse_times = 0 THEN current_time ELSE b.start,
             end |-> IF b.pulse_times = 0 THEN b.end ELSE current_time]
       ELSE [b EXCEPT !.pulse = edge.line]

\* Buzzer::sync panics: the assertion of Ms::elapsed fails, or the period
\* it returns is 0 and the division panics
SyncPanics(b) ==
    /\ b.pulse_times >= 2
    /\ \/ ElapsedPanics(b.start, b.end)
       \/ Elapsed(b.start, b.end) = 0

\* Buzzer::sync with the pitch rounded up
SyncCallsRoundUp(b) ==
    IF b.pulse_times >= 2
    THEN LET period == Elapsed(b.start, b.end)
             pitch == ((b.pulse_times - 1) * 1000000 + period - 1) \div period
         IN IF pitch >= 50 /\ pitch < 2400
            THEN <<[call |-> "enable", pitch |-> pitch]>>
            ELSE <<[call |-> "disable"]>>
    ELSE <<[call |-> "disable"]>>

\* Buzzer::sync, where it does not panic: the calls made to the frontend
SyncCalls(b) ==
    IF b.pulse_times >= 2
    THEN LET period == Elapsed(b.start, b.end)
             pitch == ((b.pulse_times - 1) * 1000000) \div period
         IN IF pitch >= 50 /\ pitch < 2400
            THEN <<[call |-> "enable", pitch |-> pitch]>>
            ELSE <<[call |-> "disable"]>>
    ELSE <<[call |-> "disable"]>>

\* Buzzer::sync leaving the pulse count as it is after enabling the sound
SyncBuzzerKeepCount(b) ==
    IF SyncCalls(b)[1].call = "enable" THEN b ELSE [b EXCEPT !.pulse_times = 0]

\* Buzzer::sync, where it does not panic: the buzzer after the call
SyncBuzzer(b) == [b EXCEPT !.pulse_times = 0]

(***************************************************************************)
(* rotary.rs: the rotary controller.                                       *)
(***************************************************************************)
\* Rotary::new
RotaryNew == [charge_end |-> 0, charge |-> FALSE]

\* ChargeInfo::default
ChargeInfoDefault == [offset |-> 600, scale |-> 65]

\* Rotary::clock with the scale divided before it is multiplied
RotaryClockScaleFirst(rt, charge, current_time, info, turn) ==
    IF ~rt.charge /\ charge
    THEN [charge |-> charge,
          charge_end |-> current_time + info.offset + (info.scale \div 10) * turn]
    ELSE [rt EXCEPT !.charge = charge]

\* Rotary::clock starting a charge on every call that finds the line high
RotaryClockLevel(rt, charge, current_time, info, turn) ==
    IF charge
    THEN [charge |-> charge,
          charge_end |-> current_time + info.offset + (info.scale * turn) \div 10]
    ELSE [rt EXCEPT !.charge = charge]

\* Rotary::clock
RotaryClock(rt, charge, current_time, info, turn) ==
    LET edge == UpdateRising(rt.charge, charge)
    IN IF edge.rising
       THEN [charge |-> edge.line,
             charge_end |-> current_time + info.offset + (info.scale * turn) \div 10]
       ELSE [rt EXCEPT !.charge = edge.line]

(***************************************************************************)
(* Construction.                                                           *)
(***************************************************************************)
NoRom == [a \in {} |-> 0]

Snapshot == [regs |-> regs, flags |-> flags, k |-> k, opcode |-> opcode,
             fixed |-> fixed, micro |-> micro, r |-> r, o |-> o, ram |-> ram]

NothingSaved == [sr |-> 0, cs |-> 0, pa |-> 0, clean |-> FALSE]

\* CartridgeSpecific::default: the rotary controller enabled, the O output
\* reversed on its way to the LCD driver
CartridgeDefault ==
    /\ rotary_enabled = TRUE
    /\ output_pla = "Reversed"

\* The LCD driver as constructed, no call made to it
DisplayNew ==
    /\ lcd = Hughes0488New
    /\ lcd_was = lcd
    /\ lcd_in = [data |-> 0, pulse |-> FALSE, not_clock |-> FALSE]
    /\ pixels = {}
    /\ lcd_ticks = 0
    /\ loaded = <<>>

\* The buzzer as constructed, no call made to it, its line low
PiezoNew ==
    /\ buzzer = BuzzerNew
    /\ buzzer_was = buzzer
    /\ sound = <<>>
    /\ synced = FALSE
    /\ sync_panicked = FALSE
    /\ buzzer_calls = 0
    /\ level = FALSE
    /\ edges = <<>>

\* The rotary controller as constructed, no call made to it, in a console
\* with a cartridge of the default charge settings
PaddleNew ==
    /\ rotary = RotaryNew
    /\ rotary_was = rotary
    /\ rotary_in = [charge |-> FALSE, current_time |-> 0, turn |-> 0]
    /\ rotary_calls = 0
    /\ charge_info = ChargeInfoDefault

\* What the specifications share of Init; each sets the CPU registers, the
\* RAM, the cartridge image and the number of clock calls itself.
\* The host has called nothing yet
HostNew ==
    /\ chip_was = <<>>
    /\ call = [op |-> "none"]

InitRest ==
    /\ DisplayNew
    /\ PiezoNew
    /\ PaddleNew
    /\ now = 0
    /\ keyboard = {}
    /\ debug \in BOOLEAN
    /\ panicked = FALSE
    /\ ticks = 0
    /\ addr_bus = -1
    /\ snap = Snapshot
    /\ call_open = FALSE
    /\ saved = NothingSaved
    /\ pc_seen = {regs.pc}
    /\ pc_steps = 0

\* Tms1100::new, with the RAM of a cartridge and any image in the ROM
Init ==
    /\ r = 0
    /\ o = 0
    /\ k = 0
    /\ adder = AdderNew
    /\ flags = [call |-> FALSE, status |-> FALSE]
    /\ regs = RegsNew
    /\ cycle = 0
    /\ opcode = 0
    /\ fixed = "None"
    /\ micro = EMPTY
    /\ constant = 0
    /\ ram_data = 0
    /\ cki_data = 0
    /\ ram \in RamInits
    /\ rom = NoRom
    /\ rom_bytes = AllBytes
    /\ budget = MaxTicks
    /\ HostNew
    /\ CartridgeDefault
    /\ InitRest

(***************************************************************************)
(* Tms1100::clock, one action per sub-instruction cycle.  A call either    *)
(* returns, and is followed by the console's write of the K pins           *)
(* (Console::clock), or panics, which ends the run.                        *)
(***************************************************************************)
Running == ~panicked /\ ticks < budget

\* Cycle::next at the end of Tms1100::clock, then Console::clock sets K
Ticked(kin) ==
    /\ cycle' = CycleNext(cycle)
    /\ k' = kin
    /\ ticks' = ticks + 1
    /\ panicked' = FALSE
    /\ UNCHANGED env

\* The call panics before Cycle::next
Panicked ==
    /\ panicked' = TRUE
    /\ UNCHANGED <<cycle, k, ticks, env>>

\* The ways exec_0 can end (TRUE: a panic in read_cki): the selector shift
\* overflows the u4's byte, which panics exactly in a build with overflow checks
Exec0Outcomes ==
    {pan \in BOOLEAN :
        IF pan THEN debug /\ CkiPanics(opcode, constant)
        ELSE ~(debug /\ CkiGroup(opcode) \in {48, 56}
                     /\ ShlOverflows(CkiShift(constant), 8))}

\* The ways exec_2 can end (TRUE: a panic in the shift of SETR or RSTR)
Exec2Outcomes ==
    {pan \in BOOLEAN :
        IF pan THEN debug /\ Exec2Panics(fixed, regs)
        ELSE ~(debug /\ fixed \in {"Rstr", "Setr"}
                     /\ ShlOverflows(RIndex(regs), 16))}

\* Cycle::On0 => exec_0
Exec0(kin) ==
    /\ Running
    /\ cycle = 0
    /\ regs' = Exec0Regs(fixed, flags, regs, opcode)
    /\ flags' = Exec0Flags(fixed, flags)
    /\ \E pan \in Exec0Outcomes :
        IF pan
        THEN /\ Panicked
             /\ UNCHANGED <<cki_data, ram_data, adder, obs>>
        ELSE /\ cki_data' = ReadCki(opcode, constant, k)
             /\ ram_data' = ram[RamFull(regs'.x, regs'.y)]
             /\ adder' = AdderReset
             /\ snap' = Snapshot
             /\ call_open' = (IF fixed = "Call" /\ flags.status THEN TRUE
                              ELSE IF fixed = "Retn" THEN FALSE
                              ELSE call_open)
             /\ saved' = (IF fixed = "Call" /\ flags.status
                          THEN IF flags.call THEN [saved EXCEPT !.clean = FALSE]
                               ELSE [sr |-> regs.pc, cs |-> regs.ca,
                                     pa |-> regs.pa, clean |-> TRUE]
                          ELSE saved)
             /\ pc_seen' = (IF regs'.pc = regs.pc THEN pc_seen ELSE {regs'.pc})
             /\ pc_steps' = (IF regs'.pc = regs.pc THEN pc_steps ELSE 0)
             /\ UNCHANGED addr_bus
             /\ Ticked(kin)
    /\ UNCHANGED <<r, o, opcode, fixed, micro, constant, ram, rom>>

\* Cycle::On1 => exec_1
Exec1(kin) ==
    /\ Running
    /\ cycle = 1
    /\ adder' = Exec1Adder(adder, micro, regs, cki_data, ram_data)
    /\ Ticked(kin)
    /\ UNCHANGED <<r, o, flags, regs, opcode, fixed, micro, constant, ram_data,
                   cki_data, ram, rom, obs>>

\* Cycle::On2 => exec_2
Exec2(kin) ==
    /\ Running
    /\ cycle = 2
    /\ adder' = AdderClock(adder, Enables(micro, C8), Enables(micro, NE))
    /\ \E pan \in Exec2Outcomes :
        IF pan
        THEN /\ ram_data' = Exec2Store(micro, ram_data, cki_data, regs)
             /\ Panicked
             /\ UNCHANGED <<regs, r, o, ram, obs>>
        ELSE /\ ram_data' = Exec2RamData(fixed,
                                Exec2Store(micro, ram_data, cki_data, regs), cki_data)
             /\ regs' = Exec2Regs(fixed, regs, constant)
             /\ r' = Exec2R(fixed, regs, r)
             /\ o' = Exec2O(fixed, flags, regs, o)
             /\ ram' = [ram EXCEPT ![RamFull(regs'.x, regs'.y)] = ram_data']
             /\ saved' = (IF fixed \in {"Ldp", "Comc"}
                          THEN [saved EXCEPT !.clean = FALSE] ELSE saved)
             /\ UNCHANGED <<addr_bus, snap, call_open, pc_seen, pc_steps>>
             /\ Ticked(kin)
    /\ UNCHANGED <<flags, opcode, fixed, micro, constant, cki_data, rom>>

\* Cycle::On3 | Cycle::On5 => idle
Idle(kin) ==
    /\ Running
    /\ cycle \in {3, 5}
    /\ Ticked(kin)
    /\ UNCHANGED <<r, o, adder, flags, regs, opcode, fixed, micro, constant,
                   ram_data, cki_data, ram, rom, obs>>

\* Rom::read: the byte at an address read before, any byte of the image at
\* an address read for the first time
RomRead(addr) == IF addr \in DOMAIN rom THEN {rom[addr]} ELSE rom_bytes

\* Cycle::On4 => exec_4, next_opcode reading the byte op from the ROM
Exec4(op, kin) ==
    /\ Running
    /\ cycle = 4
    /\ LET latched == Exec4Regs(micro, regs, adder)
           addr == FetchAddr(latched)
       IN /\ op \in RomRead(addr)
          /\ rom' = (addr :> op) @@ rom
          /\ addr_bus' = addr
          /\ regs' = [latched EXCEPT !.pc = NextPc(@)]
    /\ flags' = Exec4Flags(micro, flags, adder)
    /\ opcode' = op
    /\ constant' = OpConstant(op)
    /\ fixed' = FixedDecode(op)
    /\ micro' = EntryDecode(op)
    /\ pc_seen' = pc_seen \cup {regs'.pc}
    /\ pc_steps' = pc_steps + 1
    /\ Ticked(kin)
    /\ UNCHANGED <<r, o, adder, ram_data, cki_data, ram, snap, call_open, saved>>

Clock0 == (\E kin \in KIn : Exec0(kin)) /\ UNCHANGED devices
Clock1 == (\E kin \in KIn : Exec1(kin)) /\ UNCHANGED devices
Clock2 == (\E kin \in KIn : Exec2(kin)) /\ UNCHANGED devices
Clock3or5 == (\E kin \in KIn : Idle(kin)) /\ UNCHANGED devices
Clock4 ==
    /\ UNCHANGED devices
    /\ \E kin \in KIn :
        \E op \in RomRead(FetchAddr(Exec4Regs(micro, regs, adder))) : Exec4(op, kin)

\* Tms1100::clock
Next ==
    \/ Clock0
    \/ Clock1
    \/ Clock2
    \/ Clock3or5
    \/ Clock4

\* The CPU from reset, over every ROM image
Spec == Init /\ [][Next]_vars

\* The CPU at an instruction boundary (On0, an opcode latched and decoded as
\* next_opcode leaves it), its public registers and flags set by the host
InitRun ==
    /\ r = 0
    /\ o = 0
    /\ k \in KIn
    /\ adder = AdderNew
    /\ \E sl \in BOOLEAN : flags = [call |-> FALSE, status |-> sl]
    /\ \E pb \in {0, 9}, cb \in {0, 1} : regs = [RegsNew EXCEPT !.pb = pb, !.cb = cb]
    /\ cycle = 0
    /\ opcode \in RunBytes
    /\ fixed = FixedDecode(opcode)
    /\ micro = EntryDecode(opcode)
    /\ constant = OpConstant(opcode)
    /\ ram_data = 0
    /\ cki_data = 0
    /\ ram = RamMixed
    /\ rom = NoRom
    /\ rom_bytes = RunBytes
    /\ budget = MaxTicks
    /\ HostNew
    /\ CartridgeDefault
    /\ InitRest

SpecRun == InitRun /\ [][Next]_vars

\* MNEA, SAMAN, AMAAC, TMA: NE, CIN with C8, C8, neither
AdderBytes == {0, 1, 6, 33}

\* The CPU about to run exec_2, the adder's public fields holding any inputs
InitAdder ==
    /\ r = 0
    /\ o = 0
    /\ k \in KIn
    /\ \E p \in 0..15, n \in 0..15, c \in BOOLEAN, s \in BOOLEAN :
          adder = [p |-> p, n |-> n, output |-> 0, carry_in |-> c, status_out |-> s]
    /\ flags = [call |-> FALSE, status |-> FALSE]
    /\ regs = [RegsNew EXCEPT !.a = 9, !.y = 6]
    /\ cycle = 2
    /\ opcode \in AdderBytes
    /\ fixed = FixedDecode(opcode)
    /\ micro = EntryDecode(opcode)
    /\ constant = OpConstant(opcode)
    /\ ram_data = 0
    /\ cki_data = 0
    /\ ram = RamMixed
    /\ rom = NoRom
    /\ rom_bytes = AdderBytes
    /\ budget = AdderTicks
    /\ HostNew
    /\ CartridgeDefault
    /\ InitRest

SpecAdder == InitAdder /\ [][Next]_vars

\* RAM contents that differ from one X to the next at every Y.
RamRows == [i \in 0..127 |-> (5 * (i \div 16) + i) % 16]

\* COMX, COMC, LDX 0, LDX 3, SBIT 0, SBIT 3, RBIT 0, RBIT 3
CellBytes == {9, 11, 40, 46, 48, 51, 52, 55}

\* The CPU about to run an instruction that writes RAM back without STO or
\* CKM, X and Y anywhere, more such instructions in the ROM
InitCells ==
    /\ r = 0
    /\ o = 0
    /\ k \in KIn
    /\ adder = AdderNew
    /\ flags = [call |-> FALSE, status |-> FALSE]
    /\ \E x \in {0, 5}, y \in {0, 9} : regs = [RegsNew EXCEPT !.x = x, !.y = y]
    /\ cycle = 0
    /\ opcode \in CellBytes
    /\ fixed = FixedDecode(opcode)
    /\ micro = EntryDecode(opcode)
    /\ constant = OpConstant(opcode)
    /\ ram_data = 0
    /\ cki_data = 0
    /\ ram = RamRows
    /\ rom = NoRom
    /\ rom_bytes = CellBytes
    /\ budget = MaxTicks
    /\ HostNew
    /\ CartridgeDefault
    /\ InitRest

SpecCells == InitCells /\ [][Next]_vars

\* The opcodes of the program LDX 0, LDP 0, TCY 3, SETR, RSTR.  The operand
\* of an opcode is stored bit-reversed (next_opcode reverses it back).
LDX0 == 40
LDP0 == 16
TCY3 == 76
SETR == 13
RSTR == 12

\* Values of the R pins before the program runs.
RIn == {0, 8, 1365, 2039, 2047}

\* The program in the ROM, at the addresses the program counter visits from 1
\* (next_pc: 1, 2, 4, 8), its first opcode already latched
ProgRom == (1 :> LDP0) @@ (2 :> TCY3) @@ (4 :> SETR) @@ (8 :> RSTR)

\* The CPU at an instruction boundary with LDX 0 latched and the rest of
\* the program ahead of the program counter
InitProg ==
    /\ r \in RIn
    /\ o = 0
    /\ k \in KIn
    /\ adder = AdderNew
    /\ flags = [call |-> FALSE, status |-> FALSE]
    /\ \E x \in {0, 5}, y \in {0, 9} :
          regs = [RegsNew EXCEPT !.x = x, !.y = y, !.pc = 1]
    /\ cycle = 0
    /\ opcode = LDX0
    /\ fixed = FixedDecode(opcode)
    /\ micro = EntryDecode(opcode)
    /\ constant = OpConstant(opcode)
    /\ ram_data = 0
    /\ cki_data = 0
    /\ ram \in RamInits
    /\ rom = ProgRom
    /\ rom_bytes = {LDX0, LDP0, TCY3, SETR, RSTR}
    /\ budget = ProgTicks
    /\ HostNew
    /\ CartridgeDefault
    /\ InitRest

SpecProg == InitProg /\ [][Next]_vars

\* The CPU about to run SETR or RSTR with X and Y anywhere: the R bit index
\* within the register, in 11..15, in 16..26 and in 27..31
InitSetr ==
    /\ r \in RIn
    /\ o = 0
    /\ k \in KIn
    /\ adder = AdderNew
    /\ flags = [call |-> FALSE, status |-> FALSE]
    /\ \E x \in {0, 3, 4, 7}, y \in {0, 3, 10, 11, 15} :
          regs = [RegsNew EXCEPT !.x = x, !.y = y]
    /\ cycle = 0
    /\ opcode \in {SETR, RSTR}
    /\ fixed = FixedDecode(opcode)
    /\ micro = EntryDecode(opcode)
    /\ constant = OpConstant(opcode)
    /\ ram_data = 0
    /\ cki_data = 0
    /\ ram = RamZero
    /\ rom = NoRom
    /\ rom_bytes = {SETR, RSTR}
    /\ budget = MaxTicks
    /\ HostNew
    /\ CartridgeDefault
    /\ InitRest

SpecSetr == InitSetr /\ [][Next]_vars

\* The CPU at an instruction boundary with TDO, COMC, YNEA or CLA latched and
\* in the ROM, the accumulator, the status latch and O as earlier code left them
InitTdo ==
    /\ r = 0
    /\ o \in {0, 10}
    /\ k \in KIn
    /\ adder = AdderNew
    /\ \E sl \in BOOLEAN : flags = [call |-> FALSE, status |-> sl]
    /\ \E a \in {0, 5, 14, 15}, y \in {0, 14} :
          regs = [RegsNew EXCEPT !.a = a, !.y = y]
    /\ cycle = 0
    /\ opcode \in {2, 10, 11, 127}
    /\ fixed = FixedDecode(opcode)
    /\ micro = EntryDecode(opcode)
    /\ constant = OpConstant(opcode)
    /\ ram_data = 0
    /\ cki_data = 0
    /\ ram = RamMixed
    /\ rom = NoRom
    /\ rom_bytes = {2, 10, 11, 127}
    /\ budget = MaxTicks
    /\ HostNew
    /\ CartridgeDefault
    /\ InitRest

SpecTdo == InitTdo /\ [][Next]_vars

(***************************************************************************)
(* The LCD driver on its own, the CPU left as constructed.                 *)
(***************************************************************************)
\* Tms1100::new, no clock call to come
ChipNew ==
    /\ r = 0
    /\ o = 0
    /\ k = 0
    /\ adder = AdderNew
    /\ flags = [call |-> FALSE, status |-> FALSE]
    /\ regs = RegsNew
    /\ cycle = 0
    /\ opcode = 0
    /\ fixed = "None"
    /\ micro = EMPTY
    /\ constant = 0
    /\ ram_data = 0
    /\ cki_data = 0
    /\ ram = RamZero
    /\ rom = NoRom
    /\ rom_bytes = {0}
    /\ debug = FALSE
    /\ budget = 0
    /\ HostNew
    /\ CartridgeDefault
    /\ panicked = FALSE
    /\ ticks = 0
    /\ addr_bus = -1
    /\ snap = Snapshot
    /\ call_open = FALSE
    /\ saved = NothingSaved
    /\ pc_seen = {regs.pc}
    /\ pc_steps = 0

\* Every chip as constructed, nothing for the CPU to run
InitNew ==
    /\ ChipNew
    /\ DisplayNew
    /\ PiezoNew
    /\ PaddleNew
    /\ now = 0
    /\ keyboard = {}

\* The nibbles on the data lines.
DataIn == {0, 9}

\* Latch contents left by earlier loads: nothing, one row and every column,
\* rows 0 and 7 with columns 2 and 9, and a column without a row.
LatchIn ==
    {[i \in 0..7 |-> t[i + 1]] :
        t \in {<<0, 0, 0, 0, 0, 0, 0, 0>>, <<1, 0, 0, 0, 15, 15, 15, 15>>,
               <<0, 0, 8, 1, 0, 2, 0, 4>>, <<0, 0, 0, 0, 0, 0, 0, 3>>}}

\* Hughes0488::clock(data, pulse, not_clock, frontend)
LcdClock(data, pulse, not_clock) ==
    /\ lcd' = Hughes0488Clock(lcd, data, pulse, not_clock)
    /\ lcd_was' = lcd
    /\ lcd_in' = [data |-> data, pulse |-> pulse, not_clock |-> not_clock]
    /\ pixels' = IF lcd'.pulse /\ lcd'.not_clock
                 THEN EnabledPixels(lcd'.row, lcd'.col) ELSE {}
    /\ lcd_ticks' = lcd_ticks + 1
    /\ UNCHANGED <<chip, piezo, paddle, now, keyboard>>

\* A call with any levels on the lines
LcdClockAny ==
    /\ lcd_ticks < MaxLcdTicks
    /\ \E data \in DataIn, pulse \in BOOLEAN, not_clock \in BOOLEAN :
          LcdClock(data, pulse, not_clock)
    /\ UNCHANGED loaded

NextLcd == LcdClockAny

\* The driver after latch loads made with the pulse line low: any of the
\* latch contents, the counter anywhere, the clock line at either level
InitLcd ==
    /\ ChipNew
    /\ \E l \in LatchIn, c \in 0..7, n \in BOOLEAN :
          lcd = [Hughes0488New EXCEPT !.latches = l, !.counter = c, !.not_clock = n]
    /\ lcd_was = lcd
    /\ lcd_in = [data |-> 0, pulse |-> FALSE, not_clock |-> lcd.not_clock]
    /\ pixels = {}
    /\ lcd_ticks = 0
    /\ loaded = <<>>
    /\ PiezoNew
    /\ PaddleNew
    /\ now = 0
    /\ keyboard = {}

SpecLcd == InitLcd /\ [][NextLcd]_vars

\* The nibbles of the latch load sequence.
NibbleIn == {0, 1, 15}

\* The load sequence, a nibble presented with not_clock low
LoadLow ==
    /\ Len(loaded) < 8
    /\ lcd_ticks = 2 * Len(loaded)
    /\ \E d \in NibbleIn :
          /\ LcdClock(d, FALSE, FALSE)
          /\ loaded' = Append(loaded, d)

\* The load sequence, not_clock raised after a nibble, the pulse line high
\* with the eighth
LoadHigh ==
    /\ lcd_ticks = 2 * Len(loaded) - 1
    /\ \E d \in NibbleIn : LcdClock(d, Len(loaded) = 8, TRUE)
    /\ UNCHANGED loaded

NextLcdLoad ==
    \/ LoadLow
    \/ LoadHigh

\* The driver from reset, loaded with eight nibbles
SpecLcdLoad == InitNew /\ [][NextLcdLoad]_vars

(***************************************************************************)
(* The buzzer on its own.  The console clocks it every 10 microseconds;    *)
(* a call that repeats the level of the call before it changes nothing,    *)
(* so only the time between the calls that matter is kept.                 *)
(***************************************************************************)
\* The microseconds between two calls, multiples of the console's 10.
StepIn == {100, 500, 19900}

\* Buzzer::clock(pulse, current_time), the time step after the call before
BuzzerTick(pulse, step) ==
    /\ ~sync_panicked
    /\ now' = now + step
    /\ buzzer' = BuzzerClock(buzzer, pulse, now')
    /\ level' = pulse
    /\ edges' = IF ~level /\ pulse THEN Append(edges, now') ELSE edges
    /\ synced' = FALSE
    /\ UNCHANGED <<buzzer_was, sound, sync_panicked>>
    /\ UNCHANGED <<chip, display, paddle, keyboard>>

\* Buzzer::sync(frontend)
BuzzerSync ==
    /\ ~sync_panicked
    /\ synced' = TRUE
    /\ buzzer_was' = buzzer
    /\ IF SyncPanics(buzzer)
       THEN /\ sync_panicked' = TRUE
            /\ sound' = <<>>
            /\ UNCHANGED buzzer
       ELSE /\ sync_panicked' = FALSE
            /\ sound' = SyncCalls(buzzer)
            /\ buzzer' = SyncBuzzer(buzzer)
    /\ edges' = <<>>
    /\ UNCHANGED <<level, now>>
    /\ UNCHANGED <<chip, display, paddle, keyboard>>

\* The console's clock reaching the buzzer
BuzzerClockCall ==
    /\ buzzer_calls < MaxBuzzerCalls
    /\ buzzer_calls' = buzzer_calls + 1
    /\ \E pulse \in BOOLEAN, step \in StepIn : BuzzerTick(pulse, step)

\* The console's sync reaching the buzzer
BuzzerSyncCall ==
    /\ buzzer_calls < MaxBuzzerCalls
    /\ buzzer_calls' = buzzer_calls + 1
    /\ BuzzerSync

NextBuzzer ==
    \/ BuzzerClockCall
    \/ BuzzerSyncCall

\* The buzzer from Buzzer::new, clocked at increasing times
SpecBuzzer == InitNew /\ [][NextBuzzer]_vars

\* The times a host may write to the public fields start and end.
TimeIn == {0, 100, 3100}

\* The buzzer with its public fields written by the host, then synced
InitBuzzerSet ==
    /\ ChipNew
    /\ DisplayNew
    /\ PaddleNew
    /\ now = 0
    /\ keyboard = {}
    /\ \E pulse \in BOOLEAN, n \in 0..3, st \in TimeIn, en \in TimeIn :
          buzzer = [pulse |-> pulse, pulse_times |-> n, start |-> st, end |-> en]
    /\ buzzer_was = buzzer
    /\ sound = <<>>
    /\ synced = FALSE
    /\ sync_panicked = FALSE
    /\ buzzer_calls = 0
    /\ level = buzzer.pulse
    /\ edges = <<>>

NextBuzzerSet == BuzzerSync /\ UNCHANGED buzzer_calls

SpecBuzzerSet == InitBuzzerSet /\ [][NextBuzzerSet]_vars

(***************************************************************************)
(* The rotary controller on its own, clocked like the buzzer.              *)
(***************************************************************************)
\* The turn percentages the frontend reports.
TurnIn == {0, 33, 50, 100}

\* The charge settings of the cartridge in the console.
ChargeIn == {ChargeInfoDefault, [offset |-> 0, scale |-> 7]}

\* Rotary::clock(charge, current_time, cart, frontend), the frontend
\* reporting the turn
RotaryTick(charge, step, turn) ==
    /\ now' = now + step
    /\ rotary' = RotaryClock(rotary, charge, now', charge_info, turn)
    /\ rotary_was' = rotary
    /\ rotary_in' = [charge |-> charge, current_time |-> now', turn |-> turn]
    /\ rotary_calls' = rotary_calls + 1
    /\ UNCHANGED charge_info
    /\ UNCHANGED <<chip, display, piezo, keyboard>>

\* The console's clock reaching the rotary controller
RotaryClockCall ==
    /\ rotary_calls < MaxRotaryCalls
    /\ \E charge \in BOOLEAN, step \in StepIn, turn \in TurnIn :
          RotaryTick(charge, step, turn)

NextRotary == RotaryClockCall

\* The rotary controller from Rotary::new, with either cartridge
InitRotary ==
    /\ ChipNew
    /\ DisplayNew
    /\ PiezoNew
    /\ now = 0
    /\ keyboard = {}
    /\ rotary = RotaryNew
    /\ rotary_was = rotary
    /\ rotary_in = [charge |-> FALSE, current_time |-> 0, turn |-> 0]
    /\ rotary_calls = 0
    /\ charge_info \in ChargeIn

SpecRotary == InitRotary /\ [][NextRotary]_vars

(***************************************************************************)
(* lib.rs: the console.  Its clock runs one sub-instruction cycle of the   *)
(* CPU, builds the K input from the keyboard and the rotary controller,    *)
(* and drives the LCD driver, the speaker line and the rotary charge line  *)
(* from the R and O outputs.                                               *)
(***************************************************************************)
\* read_column with row 0 on K1 and row 3 on K8
ReadColumnUpsideDown(keys, col) ==
    OrAll({IF <<0, col>> \in keys THEN 1 ELSE 0,
           IF <<1, col>> \in keys THEN 2 ELSE 0,
           IF <<2, col>> \in keys THEN 4 ELSE 0,
           IF <<3, col>> \in keys THEN 8 ELSE 0})

\* read_column: the keys of a column as a nibble, row 0 on K8
ReadColumn(keys, col) ==
    OrAll({IF <<0, col>> \in keys THEN 8 ELSE 0,
           IF <<1, col>> \in keys THEN 4 ELSE 0,
           IF <<2, col>> \in keys THEN 2 ELSE 0,
           IF <<3, col>> \in keys THEN 1 ELSE 0})

\* Console::clock: the columns selected by R bits 10, 9 and 8, ORed
KeypadK(rv, keys) ==
    OrAll({IF (rv \div 1024) % 2 # 0 THEN ReadColumn(keys, 0) ELSE 0,
           IF (rv \div 512) % 2 # 0 THEN ReadColumn(keys, 1) ELSE 0,
           IF (rv \div 256) % 2 # 0 THEN ReadColumn(keys, 2) ELSE 0})

\* the K input without the mask that takes K8 from the keyboard
BuildKNoMask(rv, keys, enabled, status, charge, elapsed) ==
    IF enabled
    THEN BitOr(KeypadK(rv, keys), IF status /\ charge < elapsed THEN 8 ELSE 0)
    ELSE KeypadK(rv, keys)

\* Console::clock: the new K input
BuildK(rv, keys, enabled, status, charge, elapsed) ==
    IF enabled
    THEN BitOr(BitAnd(KeypadK(rv, keys), 7),
               IF status /\ charge < elapsed THEN 8 ELSE 0)
    ELSE KeypadK(rv, keys)

\* OutputPla::modify
OutputPlaModify(pla, ov) ==
    IF pla = "Normal" THEN ov % 16 ELSE ReverseBits4(ov % 16)

\* hughes0488.rs, Hughes0488::clock, the driver the console holds: no pixel
\* is enabled here and every pulse resets the counter
DriverClock(l, data, pulse, not_clock) ==
    LET counted == IF ~l.not_clock /\ not_clock THEN (l.counter + 1) % 8
                   ELSE l.counter
        latched == IF ~not_clock THEN [l.latches EXCEPT ![counted % 8] = data]
                   ELSE l.latches
        moves == pulse /\ not_clock
    IN [data |-> l.data, pulse |-> pulse, not_clock |-> not_clock,
        latches |-> latched,
        row |-> IF moves THEN FoldLatches(latched, 0) ELSE l.row,
        col |-> IF moves THEN FoldLatches(latched, 4) ELSE l.col,
        counter |-> IF pulse THEN 0 ELSE counted]

\* The keys held down during a clock call.
KeyboardIn == {{}, {<<0, 0>>, <<3, 2>>}, {<<0, 1>>, <<1, 1>>, <<2, 0>>}}

\* The turn percentages the frontend reports to the console.
ConsoleTurnIn == {0, 33}

\* The R output before the CPU's sub-cycle has run, and after it
RAfterCycle == IF cycle = 2 THEN Exec2R(fixed, regs, r) ELSE r

\* Console::clock: self.cpu.clock, the K input kin written after it
ConsoleCpu(kin) ==
    \/ Exec0(kin)
    \/ Exec1(kin)
    \/ Exec2(kin)
    \/ Idle(kin)
    \/ \E op \in RomRead(FetchAddr(Exec4Regs(micro, regs, adder))) : Exec4(op, kin)

\* Console::clock driving the speaker line from the R output as it was
\* before the CPU ran
ConsoleDriveStale(turn) ==
    /\ now' = now + 10
    /\ lcd' = DriverClock(lcd, OutputPlaModify(output_pla, o'),
                          (r' \div 64) % 2 # 0, (r' \div 128) % 2 # 0)
    /\ lcd_was' = lcd
    /\ lcd_in' = [data |-> OutputPlaModify(output_pla, o'),
                  pulse |-> (r' \div 64) % 2 # 0, not_clock |-> (r' \div 128) % 2 # 0]
    /\ pixels' = EnabledPixels(lcd'.row, lcd'.col)
    /\ lcd_ticks' = lcd_ticks + 1
    /\ UNCHANGED loaded
    /\ buzzer' = BuzzerClock(buzzer, r % 2 # 0, now')
    /\ level' = (r % 2 # 0)
    /\ edges' = IF ~level /\ level' THEN Append(edges, now') ELSE edges
    /\ synced' = FALSE
    /\ buzzer_calls' = buzzer_calls + 1
    /\ UNCHANGED <<buzzer_was, sound, sync_panicked>>
    /\ rotary' = RotaryClock(rotary, (r' \div 4) % 2 # 0, now', charge_info, turn)
    /\ rotary_was' = rotary
    /\ rotary_in' = [charge |-> (r' \div 4) % 2 # 0, current_time |-> now',
                     turn |-> turn]
    /\ rotary_calls' = rotary_calls + 1
    /\ UNCHANGED charge_info

\* Console::clock: the LCD driver, the speaker line and the rotary charge
\* line, driven from the R and O outputs the CPU has just produced
ConsoleDrive(turn) ==
    /\ now' = now + 10
    /\ lcd' = DriverClock(lcd, OutputPlaModify(output_pla, o'),
                          (r' \div 64) % 2 # 0, (r' \div 128) % 2 # 0)
    /\ lcd_was' = lcd
    /\ lcd_in' = [data |-> OutputPlaModify(output_pla, o'),
                  pulse |-> (r' \div 64) % 2 # 0, not_clock |-> (r' \div 128) % 2 # 0]
    /\ pixels' = EnabledPixels(lcd'.row, lcd'.col)
    /\ lcd_ticks' = lcd_ticks + 1
    /\ UNCHANGED loaded
    /\ buzzer' = BuzzerClock(buzzer, r' % 2 # 0, now')
    /\ level' = (r' % 2 # 0)
    /\ edges' = IF ~level /\ level' THEN Append(edges, now') ELSE edges
    /\ synced' = FALSE
    /\ buzzer_calls' = buzzer_calls + 1
    /\ UNCHANGED <<buzzer_was, sound, sync_panicked>>
    /\ rotary' = RotaryClock(rotary, (r' \div 4) % 2 # 0, now', charge_info, turn)
    /\ rotary_was' = rotary
    /\ rotary_in' = [charge |-> (r' \div 4) % 2 # 0, current_time |-> now',
                     turn |-> turn]
    /\ rotary_calls' = rotary_calls + 1
    /\ UNCHANGED charge_info

\* Console::clock
ConsoleClock ==
    \E keys \in KeyboardIn, turn \in ConsoleTurnIn :
        /\ ConsoleCpu(BuildK(RAfterCycle, keys, rotary_enabled, rotary.charge,
                             rotary.charge_end, now + 10))
        /\ keyboard' = keys
        /\ IF panicked'
           THEN UNCHANGED <<display, piezo, paddle, now>>
           ELSE ConsoleDrive(turn)

\* Console::sync
ConsoleSync ==
    /\ ~panicked
    /\ ~synced
    /\ BuzzerSync
    /\ UNCHANGED buzzer_calls

NextConsole ==
    \/ ConsoleClock
    \/ ConsoleSync

\* The R outputs a program has left: nothing, keypad columns 0 and 2, keypad
\* column 1 with the rotary charge line, every line.
RConsoleIn == {0, 1280, 516, 2047}

\* The console with the CPU at an instruction boundary, SETR or RSTR latched
\* and more of them in the ROM, Y on the speaker line, the rotary charge
\* line or keypad column 0
InitConsole ==
    /\ r \in RConsoleIn
    /\ o = 0
    /\ k = 0
    /\ adder = AdderNew
    /\ flags = [call |-> FALSE, status |-> FALSE]
    /\ \E y \in {0, 2, 10} : regs = [RegsNew EXCEPT !.y = y, !.pc = 1]
    /\ cycle = 0
    /\ opcode \in {SETR, RSTR}
    /\ fixed = FixedDecode(opcode)
    /\ micro = EntryDecode(opcode)
    /\ constant = OpConstant(opcode)
    /\ ram_data = 0
    /\ cki_data = 0
    /\ ram = RamZero
    /\ rom = NoRom
    /\ rom_bytes = {SETR, RSTR}
    /\ budget = ConsoleTicks
    /\ HostNew
    /\ rotary_enabled \in BOOLEAN
    /\ output_pla = "Reversed"
    /\ debug = FALSE
    /\ panicked = FALSE
    /\ ticks = 0
    /\ addr_bus = -1
    /\ snap = Snapshot
    /\ call_open = FALSE
    /\ saved = NothingSaved
    /\ pc_seen = {regs.pc}
    /\ pc_steps = 0
    /\ DisplayNew
    /\ PiezoNew
    /\ rotary = RotaryNew
    /\ rotary_was = rotary
    /\ rotary_in = [charge |-> FALSE, current_time |-> 0, turn |-> 0]
    /\ rotary_calls = 0
    /\ charge_info \in ChargeIn
    /\ now = 0
    /\ keyboard = {}

SpecConsole == InitConsole /\ [][NextConsole]_vars

(***************************************************************************)
(* mem.rs: the RAM chip as its users call it.                              *)
(***************************************************************************)
\* Ram::read
RamRead(data, x, y) == data[RamFull(x, y)]

\* Ram::write
RamWrite(data, x, y, val) == [data EXCEPT ![RamFull(x, y)] = val]

\* The addresses written: X in its lowest and highest bit, Y likewise.
RamXIn == {0, 1, 4}
RamYIn == {0, 8}

\* The nibbles written.
RamValIn == {6, 15}

\* ram.write(RamAddr::new(x, y), val)
RamWriteCall(x, y, val) ==
    /\ chip_was' = ram
    /\ ram' = RamWrite(ram, x, y, val)
    /\ call' = [op |-> "Ram::write", x |-> x, y |-> y, val |-> val]
    /\ UNCHANGED <<cpu, rom, settings, panicked, ticks, obs, devices>>

NextRam ==
    \E x \in RamXIn, y \in RamYIn, val \in RamValIn : RamWriteCall(x, y, val)

\* The RAM as constructed or as a program has left it
InitRam ==
    /\ r = 0
    /\ o = 0
    /\ k = 0
    /\ adder = AdderNew
    /\ flags = [call |-> FALSE, status |-> FALSE]
    /\ regs = RegsNew
    /\ cycle = 0
    /\ opcode = 0
    /\ fixed = "None"
    /\ micro = EMPTY
    /\ constant = 0
    /\ ram_data = 0
    /\ cki_data = 0
    /\ ram \in RamInits
    /\ rom = NoRom
    /\ rom_bytes = {0}
    /\ debug = FALSE
    /\ budget = 0
    /\ HostNew
    /\ CartridgeDefault
    /\ panicked = FALSE
    /\ ticks = 0
    /\ addr_bus = -1
    /\ snap = Snapshot
    /\ call_open = FALSE
    /\ saved = NothingSaved
    /\ pc_seen = {regs.pc}
    /\ pc_steps = 0
    /\ DisplayNew
    /\ PiezoNew
    /\ PaddleNew
    /\ now = 0
    /\ keyboard = {}

SpecRam == InitRam /\ [][NextRam]_vars

(***************************************************************************)
(* mem.rs: the ROM chip as the host loads it.  Here rom holds all 2048     *)
(* bytes of Rom::data.                                                     *)
(***************************************************************************)
\* Rom::new
RomNew == [a \in 0..2047 |-> 0]

\* Rom::copy panics: the slice is longer than the chip
CopyPanics(slice) == ~(Len(slice) <= 2048)

\* Rom::copy that keeps what lies behind the slice
CopyKeepTail(data, slice) ==
    [a \in 0..2047 |-> IF a < Len(slice) THEN slice[a + 1] ELSE data[a]]

\* Rom::copy: the slice, then zeroes
Copy(data, slice) ==
    [a \in 0..2047 |-> IF a < Len(slice) THEN slice[a + 1] ELSE 0]

\* u16::wrapping_add
WrappingAdd(a, b) == (a + b) % 65536

\* the fold of Rom::checksum over the addresses a..b-1: wrapping_add is
\* associative, so the bytes are added half by half
RECURSIVE Fold(_, _, _)
Fold(data, a, b) ==
    IF b = a + 1 THEN data[a]
    ELSE WrappingAdd(Fold(data, a, (a + b) \div 2), Fold(data, (a + b) \div 2, b))

\* Rom::checksum kept to its low eight bits
ChecksumNarrow(data) == Fold(data, 0, 2048) % 256

\* Rom::checksum
Checksum(data) == Fold(data, 0, 2048)

\* The images the host loads: empty, three bytes, 257 bytes (of 0xff they add
\* up to 2^16 - 1), the whole chip, one byte too many; of 0xff bytes or of a
\* ramp.
SliceLenIn == {0, 3, 257, 2048, 2049}
SliceIn ==
    {[i \in 1..n |-> 255] : n \in SliceLenIn}
        \cup {[i \in 1..n |-> (37 * i + 1) % 256] : n \in SliceLenIn}

\* The cells the host writes through the public data field, and the bytes.
PokeAddrIn == {0, 2047}
PokeByteIn == {0, 1, 255}

\* rom.copy(slice)
RomCopyCall(slice) ==
    /\ chip_was' = rom
    /\ rom' = IF CopyPanics(slice) THEN rom ELSE Copy(rom, slice)
    /\ call' = [op |-> "Rom::copy", slice |-> slice, ok |-> ~CopyPanics(slice)]
    /\ UNCHANGED <<cpu, ram, settings, panicked, ticks, obs, devices>>

\* rom.data[addr] = byte, with rom.checksum() taken before it and after it
RomPokeCall(addr, byte) ==
    /\ chip_was' = rom
    /\ rom' = [rom EXCEPT ![addr] = byte]
    /\ call' = [op |-> "Rom::data", addr |-> addr, byte |-> byte,
                sum_was |-> Checksum(rom), sum |-> Checksum(rom')]
    /\ UNCHANGED <<cpu, ram, settings, panicked, ticks, obs, devices>>

NextRom ==
    \/ \E slice \in SliceIn : RomCopyCall(slice)
    \/ \E addr \in PokeAddrIn, byte \in PokeByteIn : RomPokeCall(addr, byte)

\* The ROM as constructed
InitRom ==
    /\ r = 0
    /\ o = 0
    /\ k = 0
    /\ adder = AdderNew
    /\ flags = [call |-> FALSE, status |-> FALSE]
    /\ regs = RegsNew
    /\ cycle = 0
    /\ opcode = 0
    /\ fixed = "None"
    /\ micro = EMPTY
    /\ constant = 0
    /\ ram_data = 0
    /\ cki_data = 0
    /\ ram = RamZero
    /\ rom = RomNew
    /\ rom_bytes = 0..255
    /\ debug = FALSE
    /\ budget = 0
    /\ HostNew
    /\ CartridgeDefault
    /\ panicked = FALSE
    /\ ticks = 0
    /\ addr_bus = -1
    /\ snap = Snapshot
    /\ call_open = FALSE
    /\ saved = NothingSaved
    /\ pc_seen = {regs.pc}
    /\ pc_steps = 0
    /\ DisplayNew
    /\ PiezoNew
    /\ PaddleNew
    /\ now = 0
    /\ keyboard = {}

SpecRom == InitRom /\ [][NextRom]_vars

(***************************************************************************)
(* pinio.rs: the set and get of the pin registers, and the two             *)
(* constructors of the rotary Percentage, as a frontend calls them.        *)
(***************************************************************************)
\* R, O, K: the width of the register
PinBits(reg) == IF reg = "R" THEN 11 ELSE IF reg = "O" THEN 5 ELSE 4

\* R::set, O::set, K::set panic: the assert on nth (R::set asserts nth < 4)
SetPanics(reg, nth) == ~(nth < (IF reg = "O" THEN 5 ELSE 4))

\* R::set, O::set, K::set: self.0 &= !(0 << nth); self.0 |= state << nth
Set(reg, v, nth, state) ==
    BitOr(BitAnd(v, 2^PinBits(reg) - 1 - ShlMasked(0, nth, PinBits(reg))),
          ShlMasked(IF state THEN 1 ELSE 0, nth, PinBits(reg)))

\* R::get, O::get, K::get panic: the assert on nth
GetPanics(reg, nth) == ~(nth < PinBits(reg))

\* R::get, O::get, K::get
Get(reg, v, nth) == (v \div 2^nth) % 2 # 0

\* hardware.rs, Percentage::new
PercentageNew(amount) == IF amount <= 100 THEN amount ELSE 100

\* rotary.rs, Percentage::new panics
RotaryPercentagePanics(amount) == ~(amount < 101)

\* rotary.rs, Percentage::new
RotaryPercentageNew(amount) == amount

\* The bit numbers passed to set: the first, the last of K and of O, the
\* first beyond each, the last of R and the one after.
NthIn == [R |-> {0, 3, 4, 10, 11}, O |-> {0, 4, 5}, K |-> {0, 3, 4}]

\* The amounts a frontend makes a Percentage of.
AmountIn == {0, 50, 100, 101, 255, 1000}

\* The register a set call acts on.
Pin(reg) == IF reg = "R" THEN r ELSE IF reg = "O" THEN o ELSE k

\* cpu.r.set(nth, state), cpu.o.set(nth, state), cpu.k.set(nth, state)
SetCall(reg, nth, state) ==
    LET new == IF SetPanics(reg, nth) THEN Pin(reg)
               ELSE Set(reg, Pin(reg), nth, state)
    IN /\ chip_was' = Pin(reg)
       /\ r' = IF reg = "R" THEN new ELSE r
       /\ o' = IF reg = "O" THEN new ELSE o
       /\ k' = IF reg = "K" THEN new ELSE k
       /\ call' = [op |-> "set", reg |-> reg, nth |-> nth, state |-> state,
                   ok |-> ~SetPanics(reg, nth)]
       /\ UNCHANGED <<core, ram, rom, settings, panicked, ticks, obs, devices>>

\* hardware::Percentage::new(amount)
PercentageCall(amount) ==
    /\ chip_was' = <<>>
    /\ call' = [op |-> "hardware::Percentage::new", amount |-> amount,
                ok |-> TRUE, value |-> PercentageNew(amount)]
    /\ UNCHANGED <<cpu, ram, rom, settings, panicked, ticks, obs, devices>>

\* rotary::Percentage::new(amount)
RotaryPercentageCall(amount) ==
    /\ chip_was' = <<>>
    /\ call' = IF RotaryPercentagePanics(amount)
               THEN [op |-> "rotary::Percentage::new", amount |-> amount,
                     ok |-> FALSE, value |-> -1]
               ELSE [op |-> "rotary::Percentage::new", amount |-> amount,
                     ok |-> TRUE, value |-> RotaryPercentageNew(amount)]
    /\ UNCHANGED <<cpu, ram, rom, settings, panicked, ticks, obs, devices>>

NextCalls ==
    \/ \E reg \in {"R", "O", "K"} : \E nth \in NthIn[reg], state \in BOOLEAN :
           SetCall(reg, nth, state)
    \/ \E amount \in AmountIn : PercentageCall(amount)
    \/ \E amount \in AmountIn : RotaryPercentageCall(amount)

\* The chips as constructed, the pins all low or as a program has left them,
\* all high
InitCalls ==
    /\ r \in {0, 2047}
    /\ o \in {0, 31}
    /\ k \in {0, 15}
    /\ adder = AdderNew
    /\ flags = [call |-> FALSE, status |-> FALSE]
    /\ regs = RegsNew
    /\ cycle = 0
    /\ opcode = 0
    /\ fixed = "None"
    /\ micro = EMPTY
    /\ constant = 0
    /\ ram_data = 0
    /\ cki_data = 0
    /\ ram = RamZero
    /\ rom = NoRom
    /\ rom_bytes = {0}
    /\ debug = FALSE
    /\ budget = 0
    /\ HostNew
    /\ CartridgeDefault
    /\ panicked = FALSE
    /\ ticks = 0
    /\ addr_bus = -1
    /\ snap = Snapshot
    /\ call_open = FALSE
    /\ saved = NothingSaved
    /\ pc_seen = {regs.pc}
    /\ pc_steps = 0
    /\ DisplayNew
    /\ PiezoNew
    /\ PaddleNew
    /\ now = 0
    /\ keyboard = {}

SpecCalls == InitCalls /\ [][NextCalls]_vars

(***************************************************************************)
(* pla.rs, mod tests: the opcode table of the decode tests, one row per    *)
(* opcode! / opcode_range! line: first opcode, last opcode, the expected   *)
(* micro-instruction entry and the expected fixed instruction.             *)
(***************************************************************************)
Row(lo, hi, entry, fx) == [lo |-> lo, hi |-> hi, entry |-> entry, fixed |-> fx]

TestTable == {
    Row(0, 0, OrAll({MTP, ATN, NE}), "None"),
    Row(1, 1, OrAll({MTP, NATN, CIN, C8}), "None"),
    Row(2, 2, OrAll({YTP, ATN, NE, STSL}), "None"),
    Row(3, 3, OrAll({MTP, STO, AUTA}), "None"),
    Row(4, 4, OrAll({YTP, FTN, C8, AUTY}), "None"),
    Row(5, 5, OrAll({YTP, CIN, C8, AUTY}), "None"),
    Row(6, 6, OrAll({ATN, MTP, C8, AUTA}), "None"),
    Row(7, 7, OrAll({MTP, FTN, C8, AUTA}), "None"),
    Row(8, 8, OrAll({CKP, AUTA}), "None"),
    Row(9, 9, EMPTY, "Comx"),
    Row(10, 10, EMPTY, "Tdo"),
    Row(11, 11, EMPTY, "Comc"),
    Row(12, 12, EMPTY, "Rstr"),
    Row(13, 13, EMPTY, "Setr"),
    Row(14, 14, OrAll({CKP, NE}), "None"),
    Row(15, 15, EMPTY, "Retn"),
    Row(16, 31, EMPTY, "Ldp"),
    Row(32, 32, OrAll({ATN, AUTY}), "None"),
    Row(33, 33, OrAll({MTP, AUTA}), "None"),
    Row(34, 34, OrAll({MTP, AUTY}), "None"),
    Row(35, 35, OrAll({YTP, AUTA}), "None"),
    Row(36, 36, OrAll({STO, YTP, FTN, C8, AUTY}), "None"),
    Row(37, 37, OrAll({STO, YTP, CIN, C8, AUTY}), "None"),
    Row(38, 38, OrAll({STO, AUTA}), "None"),
    Row(39, 39, STO, "None"),
    Row(40, 47, EMPTY, "Ldx"),
    Row(48, 51, EMPTY, "Sbit"),
    Row(52, 55, EMPTY, "Rbit"),
    Row(56, 59, OrAll({CKP, CKN, MTP, NE}), "None"),
    Row(60, 60, OrAll({MTP, NATN, CIN, C8, AUTA}), "None"),
    Row(61, 61, OrAll({NATN, CIN, C8, AUTA}), "None"),
    Row(62, 62, OrAll({MTP, CIN, C8, AUTA}), "None"),
    Row(63, 63, OrAll({MTP, NE}), "None"),
    Row(64, 79, OrAll({CKP, AUTY}), "None"),
    Row(80, 95, OrAll({YTP, CKN, NE}), "None"),
    Row(96, 111, OrAll({CKM, YTP, CIN, AUTY}), "None"),
    Row(112, 126, OrAll({CKP, ATN, CIN, C8, AUTA}), "None"),
    Row(127, 127, OrAll({CKP, CIN, C8, AUTA}), "None"),
    Row(128, 191, EMPTY, "Br"),
    Row(192, 255, EMPTY, "Call") }

\* The rows of the test table that cover an opcode
TestRows(op) == {row \in TestTable : op \in row.lo..row.hi}

(***************************************************************************)
(* The claims.                                                             *)
(***************************************************************************)
\* An instruction has run its six sub-cycles: the CPU is back in On0 and snap
\* is the state in which that instruction entered On0.
Completed == cycle = 0 /\ ticks > 0 /\ ~panicked

\* C1 (as claimed): in sub-cycle 4 the next opcode is read from ROM address
\* (CA<<10)|(PA<<6)|PC, with the CA, PA and PC of that moment, before PC is
\* advanced, also when CA differs from CS.
C1_FetchFromCA ==
    [][cycle = 4 /\ ticks' = ticks + 1
         => addr_bus' = RomFull(regs.ca, regs.pa, regs.pc)]_vars

\* C2 (as claimed): the steps of next_pc from a start value visit 64 distinct
\* values before returning to the start: as long as fewer than 64 steps were
\* taken since PC was loaded, no PC value has come twice.
C2_FullOrbit == pc_steps < 64 => Cardinality(pc_seen) = pc_steps + 1

\* C3 (as claimed): after a BR (0x80..=0xbf) resolved with SL true, whatever
\* the call latch, the next opcode is fetched from
\* (CB<<10)|(PB<<6)|(opcode&0x3f), CB and PB taken when the branch resolves.
C3_BranchTarget ==
    (cycle = 5 /\ snap.fixed = "Br" /\ snap.flags.status)
        => addr_bus = RomFull(snap.regs.cb, snap.regs.pb, BitAnd(snap.opcode, 63))

\* C4: a RETN that follows a CALL taken with the call latch clear, with no
\* LDP, COMC or taken CALL in between, returns to what the CALL saved: PC is
\* the saved SR, CA the saved CS, PA the page current at the CALL, and the
\* call latch is clear.
C4_ReturnRestores ==
    (cycle = 1 /\ ~panicked /\ snap.fixed = "Retn" /\ snap.flags.call /\ saved.clean)
        => /\ regs.pc = saved.sr
           /\ regs.ca = saved.cs
           /\ regs.pa = saved.pa
           /\ ~flags.call

\* C4 witness: a RETN has just returned from a clean CALL to another page
\* than the subroutine's.
C4_Witness ==
    /\ cycle = 1 /\ ~panicked /\ snap.fixed = "Retn" /\ snap.flags.call /\ saved.clean
    /\ regs.pa = saved.pa /\ snap.regs.pa # saved.pa
    /\ regs.pc = saved.sr /\ ~flags.call

\* C5: the call latch is set exactly when a CALL has been taken and no RETN
\* has executed since the latest taken CALL.
C5_CallLatch == flags.call = call_open

\* C5 witness: a RETN has just cleared the latch a taken CALL had set.
C5_Witness ==
    /\ cycle = 1 /\ snap.fixed = "Retn" /\ snap.flags.call
    /\ ~flags.call /\ ~call_open

C7_Widths ==
    /\ r \in 0..2047
    /\ o \in 0..31
    /\ k \in 0..15
    /\ regs.a \in 0..15 /\ regs.y \in 0..15 /\ regs.pa \in 0..15 /\ regs.pb \in 0..15
    /\ adder.p \in 0..15 /\ adder.n \in 0..15 /\ adder.output \in 0..15
    /\ constant \in 0..15 /\ ram_data \in 0..15 /\ cki_data \in 0..15
    /\ regs.x \in 0..7
    /\ regs.pc \in 0..63 /\ regs.sr \in 0..63
    /\ regs.ca \in 0..1 /\ regs.cb \in 0..1 /\ regs.cs \in 0..1
    /\ \A i \in 0..127 : ram[i] \in 0..15

\* C7 witness: the adder has wrapped a sum above 15 back into four bits.
C7_Witness ==
    /\ cycle = 3
    /\ adder.p + adder.n + (IF adder.carry_in THEN 1 ELSE 0) > 15
    /\ adder.output = (adder.p + adder.n + (IF adder.carry_in THEN 1 ELSE 0)) - 16

\* C8: every opcode next_opcode decodes gets the pair the opcode test table
\* lists for it, the table covers each opcode once, and an opcode with a
\* fixed instruction has an empty micro-instruction entry.
C8_DecodeTable ==
    addr_bus # -1 =>
        /\ Cardinality(TestRows(opcode)) = 1
        /\ \A row \in TestRows(opcode) : micro = row.entry /\ fixed = row.fixed
        /\ fixed # "None" => micro = EMPTY
        /\ opcode = 2 => micro = OrAll({YTP, ATN, NE, STSL})
        /\ opcode \in 64..79 => micro = OrAll({CKP, AUTY})
        /\ opcode \in {0, 1, 3, 4, 5, 6, 7, 8, 14} => fixed = "None"

\* C8 witness: the last opcode of the AC1AC range and CLA, its neighbour, have
\* been decoded to different entries.
C8_Witness ==
    /\ addr_bus # -1
    /\ opcode = 127
    /\ micro = OrAll({CKP, CIN, C8, AUTA})
    /\ fixed = "None"

\* C9 (as claimed): CLA (0x7f) entered at On0 with SL false ends its six
\* sub-cycles with A = 0 and SL true, for any starting A.
C9_ClaSetsStatus ==
    (Completed /\ snap.opcode = 127 /\ ~snap.flags.status)
        => regs.a = 0 /\ flags.status

\* C9 (amended): CLA entered at On0 with SL false ends its six sub-cycles
\* with A = 0 and the adder's status output true, and leaves SL false.
C9_ClaKeepsStatus ==
    (Completed /\ snap.opcode = 127 /\ ~snap.flags.status)
        => regs.a = 0 /\ adder.status_out /\ ~flags.status

\* C9 witness: CLA has run from A = 5 with SL false.
C9_Witness ==
    /\ Completed /\ snap.opcode = 127 /\ ~snap.flags.status
    /\ snap.regs.a = 5 /\ regs.a = 0

\* C10: TKA (0x08) ends its six sub-cycles with A = the value the K pins held
\* when it entered On0, for every starting A, and leaves SL, X, Y and the RAM
\* cell at (X, Y) unchanged.
C10_TkaLoadsK ==
    (Completed /\ snap.opcode = 8)
        => /\ regs.a = snap.k
           /\ flags.status = snap.flags.status
           /\ regs.x = snap.regs.x
           /\ regs.y = snap.regs.y
           /\ ram[RamFull(regs.x, regs.y)] = snap.ram[RamFull(snap.regs.x, snap.regs.y)]

\* C10 witness: TKA has replaced a different A by K = 0b1010.
C10_Witness ==
    /\ Completed /\ snap.opcode = 8
    /\ snap.k = 10 /\ snap.regs.a # 10 /\ regs.a = 10

\* C11: running LDX 0, LDP 0, TCY 3, SETR, the R pins are untouched until
\* SETR's third sub-cycle, which sets bit 3 (X = 0, Y = 3) and leaves every
\* other bit as it was; the RSTR that follows clears bit 3 and leaves every
\* other bit as it was; R stays within 11 bits throughout.
C11_SetrRstr ==
    LET bit(v, i) == (v \div (2 ^ i)) % 2
        before == addr_bus \in {-1, 1, 2} \/ (addr_bus = 4 /\ cycle \in 0..2)
        set == (addr_bus = 4 /\ cycle \in {3, 4}) \/ (addr_bus = 8 /\ cycle = 0)
        cleared == addr_bus = 8 /\ cycle \in {3, 4}
    IN /\ r \in 0..2047
       /\ ~panicked
       /\ before => r = snap.r
       /\ set => /\ regs.x = 0 /\ regs.y = 3
                 /\ \A i \in 0..10 : bit(r, i) = IF i = 3 THEN 1 ELSE bit(snap.r, i)
       /\ cleared => /\ regs.x = 0 /\ regs.y = 3
                     /\ \A i \in 0..10 : bit(r, i) = IF i = 3 THEN 0 ELSE bit(snap.r, i)

\* RSTR has cleared bit 3 of an R that SETR had brought from 1365 to 1373
C11_Witness ==
    /\ addr_bus = 8 /\ cycle = 3 /\ opcode = RSTR /\ debug
    /\ snap.r = 1373 /\ r = 1365

\* C12: after a call with pulse and not_clock both high, the row and column
\* outputs are the latches just transferred and the pixels enabled are
\* exactly the (x, y) with bit y of the row and bit x of the column set;
\* after any other call no pixel was enabled.
C12_PixelsExact ==
    lcd_ticks > 0 =>
        IF lcd_in.pulse /\ lcd_in.not_clock
        THEN /\ lcd.row = lcd.latches[0] * 4096 + lcd.latches[1] * 256
                          + lcd.latches[2] * 16 + lcd.latches[3]
             /\ lcd.col = lcd.latches[4] * 4096 + lcd.latches[5] * 256
                          + lcd.latches[6] * 16 + lcd.latches[7]
             /\ pixels = {c \in (0..15) \X (0..15) :
                             /\ (lcd.row \div (2 ^ c[2])) % 2 = 1
                             /\ (lcd.col \div (2 ^ c[1])) % 2 = 1}
        ELSE pixels = {}

\* Rows 0 and 7 with columns 2 and 9 have been transferred: four pixels
C12_Witness ==
    /\ lcd_ticks > 0 /\ lcd_in.pulse /\ lcd_in.not_clock
    /\ lcd.row = 129 /\ lcd.col = 516
    /\ pixels = {<<2, 0>>, <<9, 0>>, <<2, 7>>, <<9, 7>>}

\* C13: after every call with pulse high the latch counter is 0.
C13_PulseResets ==
    (lcd_ticks > 0 /\ lcd_in.pulse) => lcd.counter = 0

\* C14: the latch counter changes only by becoming (counter + 1) mod 8 in a
\* call where not_clock rises, or by becoming 0 in a call with pulse high;
\* a rise with pulse low always counts, and a call with no rise and pulse
\* low leaves the counter alone.
C14_CounterSteps ==
    lcd_ticks > 0 =>
        LET rising == ~lcd_was.not_clock /\ lcd_in.not_clock
            counted == (lcd_was.counter + 1) % 8
        IN /\ lcd.counter # lcd_was.counter =>
                \/ rising /\ lcd.counter = counted
                \/ lcd_in.pulse /\ lcd.counter = 0
           /\ (rising /\ ~lcd_in.pulse) => lcd.counter = counted
           /\ (~rising /\ ~lcd_in.pulse) => lcd.counter = lcd_was.counter

\* not_clock rose with pulse low and the counter wrapped from 7 to 0
C14_Witness ==
    /\ lcd_ticks > 0 /\ ~lcd_was.not_clock /\ lcd_in.not_clock /\ ~lcd_in.pulse
    /\ lcd_was.counter = 7 /\ lcd.counter = 0

\* C15: from reset, after eight nibbles presented with not_clock low, each
\* followed by a call with not_clock high, the pulse high in the last one
\* only, the row is the first four nibbles and the column the last four,
\* first nibble highest; for 1,0,0,0,f,f,f,f the pixels are (x, 12), x in 0..15.
C15_LoadSequence ==
    (Len(loaded) = 8 /\ lcd_ticks = 16) =>
        /\ lcd.row = loaded[1] * 4096 + loaded[2] * 256 + loaded[3] * 16 + loaded[4]
        /\ lcd.col = loaded[5] * 4096 + loaded[6] * 256 + loaded[7] * 16 + loaded[8]
        /\ loaded = <<1, 0, 0, 0, 15, 15, 15, 15>> =>
              pixels = {<<x, 12>> : x \in 0..15}

\* The sequence 1,0,0,0,f,f,f,f has been loaded and row 12 enabled
C15_Witness ==
    /\ lcd_ticks = 16 /\ loaded = <<1, 0, 0, 0, 15, 15, 15, 15>>
    /\ lcd.row = 4096 /\ lcd.col = 65535
    /\ Cardinality(pixels) = 16

\* C16: a sync makes exactly one frontend call: with n = pulse_times >= 2
\* and p = ((n - 1) * 1000000) div (end - start), enable(p) when
\* 50 <= p < 2400 and disable otherwise; with n < 2, disable.
C16_SyncCalls ==
    synced =>
        LET n == buzzer_was.pulse_times
            p == ((n - 1) * 1000000) \div (buzzer_was.end - buzzer_was.start)
        IN /\ ~sync_panicked
           /\ Len(sound) = 1
           /\ IF n >= 2 /\ 50 <= p /\ p < 2400
              THEN sound[1] = [call |-> "enable", pitch |-> p]
              ELSE sound[1] = [call |-> "disable"]

\* The line rose at 100, 1100, 2100 and 3100, and the sync enabled 1000 Hz
C16_Witness ==
    /\ synced
    /\ buzzer_was.pulse_times = 4 /\ buzzer_was.start = 100 /\ buzzer_was.end = 3100
    /\ sound = <<[call |-> "enable", pitch |-> 1000]>>

\* C17: a sync of a buzzer with pulse_times >= 2 and end = start does not
\* fault: it calls disable and resets pulse_times to 0.
C17_PeriodZeroDisables ==
    (synced /\ buzzer_was.pulse_times >= 2 /\ buzzer_was.end = buzzer_was.start) =>
        /\ ~sync_panicked
        /\ sound = <<[call |-> "disable"]>>
        /\ buzzer.pulse_times = 0

\* C18: after every sync pulse_times is 0, and start, end and the
\* remembered level of the line are what they were before it.
C18_SyncClearsCount ==
    synced =>
        /\ ~sync_panicked
        /\ buzzer.pulse_times = 0
        /\ buzzer.start = buzzer_was.start
        /\ buzzer.end = buzzer_was.end
        /\ buzzer.pulse = buzzer_was.pulse

\* A sync that enabled the sound with the line high has cleared a count of 2
C18_Witness ==
    /\ synced /\ buzzer_was.pulse_times = 2 /\ buzzer_was.pulse
    /\ buzzer_was.start = 100 /\ buzzer_was.end = 700
    /\ sound = <<[call |-> "enable", pitch |-> 1666]>>
    /\ buzzer = [pulse |-> TRUE, pulse_times |-> 0, start |-> 100, end |-> 700]

\* C19: pulse_times is the number of times the line rose between
\* consecutive clock calls since the latest sync, start is the time of the
\* first of them and, from two on, end is the time of the latest.
C19_CountsEdges ==
    /\ buzzer.pulse_times = Len(edges)
    /\ Len(edges) >= 1 => buzzer.start = edges[1]
    /\ Len(edges) >= 2 => buzzer.end = edges[Len(edges)]

\* After a sync that followed a rise, the line has risen twice more and is
\* held high
C19_Witness ==
    /\ buzzer_was.pulse_times >= 1 /\ ~synced /\ level
    /\ Len(edges) = 2 /\ buzzer.pulse_times = 2
    /\ buzzer.start = edges[1] /\ buzzer.end = edges[2]
    /\ buzzer_was.start < buzzer.start

\* C20: charge_end changes only in a call where the charge line rises, and
\* then becomes current_time + offset + ((scale * turn) div 10); offset 600,
\* scale 65, turn 50 at time 1000 give 1925; after any other call
\* charge_end is what it was.
C20_ChargeEnd ==
    rotary_calls > 0 =>
        LET rising == ~rotary_was.charge /\ rotary_in.charge
            t == rotary_in.current_time
            turn == rotary_in.turn
        IN /\ rising =>
                rotary.charge_end =
                    t + charge_info.offset + ((charge_info.scale * turn) \div 10)
           /\ (rising /\ t = 1000 /\ turn = 50 /\ charge_info.offset = 600
                      /\ charge_info.scale = 65) => rotary.charge_end = 1925
           /\ ~rising => rotary.charge_end = rotary_was.charge_end

\* The charge line rose at time 1000 with the paddle half turned
C20_Witness ==
    /\ rotary_calls > 0 /\ ~rotary_was.charge /\ rotary_in.charge
    /\ rotary_in.current_time = 1000 /\ rotary_in.turn = 50
    /\ charge_info = ChargeInfoDefault
    /\ rotary.charge_end = 1925

\* A console clock call has run to its end.
Clocked == ticks > 0 /\ ~panicked

\* Some selected keypad column has the key of this row held down.
RowDriven(row) ==
    \E col \in 0..2 : (r \div 2^(10 - col)) % 2 # 0 /\ <<row, col>> \in keyboard

\* C21: after a console clock with the rotary enabled, K bit 3 is 1 exactly
\* when the charge line was high at the end of the previous tick and its
\* charge_end lies strictly before the elapsed time, whatever keypad row 0
\* does; with the rotary disabled, K bit 3 is 1 exactly when row 0 of a
\* selected keypad column is held down.
C21_RotaryBit ==
    Clocked =>
        IF rotary_enabled
        THEN (k \div 8 = 1) <=> (rotary_was.charge /\ rotary_was.charge_end < now)
        ELSE (k \div 8 = 1) <=> RowDriven(0)

\* C21 happens: the rotary is enabled, its charge has timed out and no
\* selected column has row 0 held down.
C21_Witness ==
    /\ Clocked
    /\ rotary_enabled
    /\ k \div 8 = 1
    /\ rotary_was.charge
    /\ rotary_was.charge_end < now
    /\ ~RowDriven(0)

\* C22 as stated: the K input is the OR over the selected keypad columns of
\* their keys, row 0 on K8, row 1 on K4, row 2 on K2, row 3 on K1.
C22_KeypadOnly ==
    Clocked => \A row \in 0..3 : ((k \div 2^(3 - row)) % 2 = 1) <=> RowDriven(row)

\* C22: K4, K2 and K1 are the OR over the selected keypad columns (column 0
\* by R bit 10, column 1 by bit 9, column 2 by bit 8) of rows 1, 2 and 3,
\* and K8 is that of row 0 when the rotary is disabled; no key contributes
\* when none of R bits 8..10 is set.  With the rotary enabled K8 is the
\* rotary's.
C22_KeypadColumns ==
    Clocked =>
        /\ \A row \in 1..3 : ((k \div 2^(3 - row)) % 2 = 1) <=> RowDriven(row)
        /\ ~rotary_enabled => ((k \div 8 = 1) <=> RowDriven(0))
        /\ (r \div 256) % 8 = 0 => k % 8 = 0

\* C22 happens: two selected columns contribute different rows.
C22_Witness ==
    /\ Clocked
    /\ ~rotary_enabled
    /\ (r \div 256) % 8 = 5
    /\ keyboard = {<<0, 0>>, <<3, 2>>}
    /\ k = 9


\* C23: after write((x, y), v) a read of (x, y) returns v, the cell written
\* is the one at x * 16 + y, and a read of every other (x, y) returns what it
\* returned before the write, so distinct (x, y) address distinct cells.
C23_WriteThenRead ==
    call.op = "Ram::write" =>
        /\ RamRead(ram, call.x, call.y) = call.val
        /\ ram[call.x * 16 + call.y] = call.val
        /\ \A x \in 0..7, y \in 0..15 :
               <<x, y>> # <<call.x, call.y>> =>
                   RamRead(ram, x, y) = RamRead(chip_was, x, y)
        /\ \A i \in 0..127 : i # call.x * 16 + call.y => ram[i] = chip_was[i]

\* C23 happens: a write changes the cell at X = 1, Y = 0 while the cell at
\* X = 0, Y = 8 holds another value.
C23_Witness ==
    /\ call.op = "Ram::write"
    /\ call.x = 1 /\ call.y = 0
    /\ chip_was[16] # call.val
    /\ RamRead(ram, 0, 8) # call.val

\* C24: a bulk load of a slice of n <= 2048 bytes leaves data[i] = slice[i]
\* for i < n and data[i] = 0 for n <= i < 2048, whatever the ROM held; a
\* slice of more than 2048 bytes makes the load fail and leaves the ROM as
\* it was.
C24_BulkLoad ==
    call.op = "Rom::copy" =>
        IF Len(call.slice) <= 2048
        THEN /\ call.ok
             /\ \A i \in 0..2047 :
                    rom[i] = IF i < Len(call.slice) THEN call.slice[i + 1] ELSE 0
        ELSE /\ ~call.ok
             /\ rom = chip_was

\* C24 happens: a three-byte image is loaded over a ROM full of other bytes.
C24_Witness ==
    /\ call.op = "Rom::copy"
    /\ call.ok
    /\ Len(call.slice) = 3
    /\ \A i \in 0..2047 : chip_was[i] = 255
    /\ rom[2] = 112 /\ rom[3] = 0

\* The sum, as an unbounded integer, of the bytes at the addresses a..b-1.
RECURSIVE SumBytes(_, _, _)
SumBytes(data, a, b) ==
    IF b = a + 1 THEN data[a]
    ELSE SumBytes(data, a, (a + b) \div 2) + SumBytes(data, (a + b) \div 2, b)

C25_PercentageClamps ==
    call.op \in {"hardware::Percentage::new", "rotary::Percentage::new"} =>
        /\ call.ok
        /\ call.value = IF call.amount > 100 THEN 100 ELSE call.amount

\* C26: for each of R, O and K and each bit n its set accepts, after
\* set(n, state) get(n) returns state and every other bit is what it was; so
\* set(n, false) clears a bit n that was 1.
C26_SetThenGet ==
    (call.op = "set" /\ call.ok) =>
        /\ ~GetPanics(call.reg, call.nth)
        /\ Get(call.reg, Pin(call.reg), call.nth) = call.state
        /\ \A i \in 0..(PinBits(call.reg) - 1) :
               i # call.nth =>
                   Get(call.reg, Pin(call.reg), i) = Get(call.reg, chip_was, i)

\* C27: R::set(n, state) succeeds for every n in 0..=10 and panics only for
\* an n outside 0..=10, the range R::get accepts.
C27_RSetRange ==
    (call.op = "set" /\ call.reg = "R") =>
        /\ call.ok <=> call.nth \in 0..10
        /\ call.ok <=> ~GetPanics("R", call.nth)

\* C29: SBIT (0x30..=0x33) sets to one exactly one bit of RAM[X,Y], the one
\* its constant selects, and leaves the other three bits of the cell as they
\* were; RBIT (0x34..=0x37) clears exactly one bit and leaves the other
\* three.
C29_SingleBit ==
    (Completed /\ snap.opcode \in 48..55) =>
        LET cell == RamFull(snap.regs.x, snap.regs.y)
        IN \E b \in 0..3 :
               ram[cell] = IF snap.opcode <= 51 THEN BitOr(snap.ram[cell], 2^b)
                           ELSE BitAnd(snap.ram[cell], 15 - 2^b)

\* C30: an instruction whose micro mask enables neither STO nor CKM and
\* whose fixed tag is neither Sbit nor Rbit (LDX and COMX among them) leaves
\* every RAM cell as it was over its six sub-cycles.
C30_RamUntouched ==
    (/\ Completed
     /\ ~Enables(snap.micro, STO)
     /\ ~Enables(snap.micro, CKM)
     /\ snap.fixed \notin {"Sbit", "Rbit"}) => ram = snap.ram

\* C31: for all 4-bit P and N and every carry_in the adder clock leaves
\* output = (P + N + carry_in) mod 16 and status_out = the status before AND
\* (no carry_to_status OR P + N + carry_in > 15) AND (no compare_to_status OR
\* P # N); the status before is the true that sub-cycle 0 set, so status_out
\* after sub-cycle 2 is false only if an enabled C8 saw no carry or an
\* enabled NE saw P = N.
C31_AdderClock ==
    [][(cycle = 2 /\ ticks' = ticks + 1) =>
          LET sum == adder.p + adder.n + (IF adder.carry_in THEN 1 ELSE 0)
          IN /\ adder'.output = sum % 16
             /\ adder'.status_out =
                    (/\ adder.status_out
                     /\ (~Enables(micro, C8) \/ sum > 15)
                     /\ (~Enables(micro, NE) \/ adder.p # adder.n))
             /\ adder'.p = adder.p /\ adder'.n = adder.n
             /\ ticks >= 2 => adder.status_out
             /\ (ticks >= 2 /\ ~adder'.status_out) =>
                    \/ Enables(micro, C8) /\ sum <= 15
                    \/ Enables(micro, NE) /\ adder.p = adder.n]_vars

\* C31 happens: P + N = 15 and the carry input makes the sum wrap to 0 with a
\* carry that keeps the status true under C8.
C31_Witness ==
    /\ cycle = 3
    /\ ~panicked
    /\ Enables(micro, C8)
    /\ adder.carry_in
    /\ adder.p + adder.n = 15
    /\ adder.output = 0
    /\ adder.status_out

\* C32: for every X and Y, SETR and RSTR change at most the R bit numbered
\* ((X>>2)<<4)|Y; when that number is 11 or more the instruction leaves R as
\* it was, and it never faults.
C32_SetrOutOfRange ==
    [][(cycle = 2 /\ fixed \in {"Setr", "Rstr"} /\ ~panicked /\ ticks < budget) =>
          LET idx == 16 * (regs.x \div 4) + regs.y
          IN /\ ~panicked'
             /\ idx >= 11 => r' = r
             /\ \A i \in 0..10 : i # idx => (r' \div 2^i) % 2 = (r \div 2^i) % 2]_vars

\* C33: a taken CALL with the call latch already set leaves SR, CS, PA and
\* the call latch as they were and sets only CA to CB, PB to PA and PC to the
\* low six bits of the opcode, so the return address of the first CALL
\* stays.
C33_NestedCall ==
    (/\ cycle = 1 /\ ~panicked
     /\ snap.fixed = "Call" /\ snap.flags.status /\ snap.flags.call) =>
        /\ regs.sr = snap.regs.sr
        /\ regs.cs = snap.regs.cs
        /\ regs.pa = snap.regs.pa
        /\ flags.call
        /\ flags.status
        /\ regs = [snap.regs EXCEPT !.ca = snap.regs.cb, !.pb = snap.regs.pa,
                                    !.pc = snap.opcode % 64]

\* C33 happens: a second CALL is taken from another address than the saved
\* one, with PB other than PA.
C33_Witness ==
    /\ cycle = 1 /\ ~panicked
    /\ snap.fixed = "Call" /\ snap.flags.status /\ snap.flags.call
    /\ snap.regs.pc # snap.regs.sr
    /\ snap.regs.pb # snap.regs.pa
    /\ regs.sr = snap.regs.sr

\* C34: within one console clock the CPU's sub-cycle runs first, and the K
\* input, the LCD driver, the buzzer and the rotary are driven from the R and
\* O it has just produced: when that sub-cycle raises R bit 0, the buzzer
\* counts the rising edge in the same call, with the elapsed time of this
\* call as its start (first edge) or end.
C34_SameCall ==
    [][ticks' = ticks + 1 =>
          /\ now' = now + 10
          /\ k' = BuildK(r', keyboard', rotary_enabled, rotary.charge,
                         rotary.charge_end, now')
          /\ lcd'.pulse = ((r' \div 64) % 2 = 1)
          /\ lcd'.not_clock = ((r' \div 128) % 2 = 1)
          /\ lcd_in'.data = OutputPlaModify(output_pla, o')
          /\ buzzer'.pulse = (r' % 2 = 1)
          /\ rotary'.charge = ((r' \div 4) % 2 = 1)
          /\ (r % 2 = 0 /\ r' % 2 = 1) =>
                 /\ buzzer'.pulse_times = buzzer.pulse_times + 1
                 /\ IF buzzer.pulse_times = 0
                    THEN buzzer'.start = now + 10 /\ buzzer'.end = buzzer.end
                    ELSE buzzer'.end = now + 10 /\ buzzer'.start = buzzer.start]_vars

\* C34 happens: the SETR that raises R bit 0 in the third clock call has its
\* rising edge counted with the time of that call.
C34_Witness ==
    /\ ticks = 3 /\ cycle = 3 /\ ~panicked
    /\ fixed = "Setr" /\ regs.y = 0
    /\ r % 2 = 1
    /\ now = 30
    /\ buzzer.pulse_times = 1
    /\ buzzer.start = 30

\* C35: in every buzzer state reached through console clock and sync
\* calls, the time growing by 10 with each clock, a pulse count of 2 or more
\* comes with end > start, so no sync divides by zero or fails the assertion
\* that the start lies before the end.
C35_EndAfterStart ==
    /\ buzzer.pulse_times >= 2 => buzzer.end > buzzer.start
    /\ ~SyncPanics(buzzer)
    /\ ~sync_panicked

\* C35 happens: a sync finds two edges counted, the second one later than
\* the first, and computes a pitch.
C35_Witness ==
    /\ synced
    /\ ~sync_panicked
    /\ buzzer_was.pulse_times = 2
    /\ buzzer_was.end > buzzer_was.start
    /\ buzzer.pulse_times = 0
    /\ ticks > 0

\* C36: from the reset state, whatever the ROM, the RAM and the K inputs, PC,
\* PA and CS are 0 in every reachable state, and every opcode fetch reads
\* ROM address 0.
C36_StuckAtZero ==
    /\ regs.pc = 0
    /\ regs.pa = 0
    /\ regs.cs = 0
    /\ addr_bus \in {-1, 0}

\* C36 happens: the byte at address 0 is a branch or a call to another
\* address than 0, it has been fetched twice and has run its first
\* sub-cycle.
C36_Witness ==
    /\ ticks >= 11 /\ cycle = 1 /\ ~panicked
    /\ snap.fixed \in {"Br", "Call"}
    /\ opcode % 64 # 0
    /\ 0 \in DOMAIN rom /\ rom[0] = opcode
    /\ addr_bus = 0
    /\ regs.pc = 0

\* C37: the status latch SL changes only in sub-cycle 4 and only while the
\* current opcode is 0x02, the one opcode whose micro mask enables STSL;
\* every other opcode and every other sub-cycle leaves SL as it was.
C37_StatusLatch ==
    [][/\ flags'.status # flags.status =>
              (cycle = 4 /\ opcode = 2 /\ flags'.status = adder.status_out)
       /\ cycle = 4 => (Enables(micro, STSL) <=> opcode = 2)
       /\ ticks = 0 =>
              \A op \in AllBytes : Enables(EntryDecode(op), STSL) <=> op = 2]_vars

\* C37 happens: opcode 0x02 has raised SL from false in its sub-cycle 4.
C37_Witness ==
    /\ cycle = 5 /\ ~panicked
    /\ snap.opcode = 2
    /\ ~snap.flags.status
    /\ flags.status

\* C38: in sub-cycle 2 TDO sets O to the status latch (as 1 or 0) or-ed with
\* the accumulator, a value below 32, and leaves the registers, R and the
\* flags alone; O changes in no other sub-cycle and under no other instruction.
C38_Tdo ==
    [][/\ (cycle = 2 /\ fixed = "Tdo" /\ ticks' = ticks + 1) =>
              /\ o' = regs.a + (IF flags.status /\ regs.a % 2 = 0 THEN 1 ELSE 0)
              /\ o' \in 0..31
              /\ regs' = regs
              /\ r' = r
              /\ flags' = flags
       /\ o' # o => (cycle = 2 /\ fixed = "Tdo")]_vars

\* C38 happens: TDO has overwritten O = 10 with A = 14 or-ed with SL = 1.
C38_Witness ==
    /\ cycle = 3 /\ ~panicked
    /\ fixed = "Tdo"
    /\ snap.o = 10
    /\ flags.status
    /\ regs.a = 14
    /\ o = 15

\* C39: a tick of the LCD driver changes at most one latch: with not_clock
\* low it writes the data nibble to the latch the counter addressed when the
\* tick began (before any reset by the pulse); with not_clock high the
\* latches are left as they were.
C39_OneLatch ==
    [][lcd_ticks' = lcd_ticks + 1 =>
          /\ Cardinality({i \in 0..7 : lcd'.latches[i] # lcd.latches[i]}) <= 1
          /\ ~lcd_in'.not_clock =>
                 lcd'.latches = [lcd.latches EXCEPT ![lcd.counter] = lcd_in'.data]
          /\ lcd_in'.not_clock => lcd'.latches = lcd.latches]_vars

\* C39 happens: a tick with not_clock low and the pulse high has written
\* latch 5, the counter's value at entry, and the pulse has reset the counter.
C39_Witness ==
    /\ lcd_ticks > 0
    /\ ~lcd_in.not_clock /\ lcd_in.pulse
    /\ lcd_was.counter = 5 /\ lcd.counter = 0
    /\ lcd.latches[5] = lcd_in.data
    /\ lcd.latches[5] # lcd_was.latches[5]
    /\ \A i \in 0..7 \ {5} : lcd.latches[i] = lcd_was.latches[i]

\* C40: with the rotary controller enabled, once K bit 3 is 1 (the charge
\* has timed out) it is 1 after the next Clock whenever the charge line was
\* seen high on the Clock before, the charge end being left alone meanwhile;
\* it returns to 0 only after a Clock that saw the charge line low.
C40_TimedOutStays ==
    [][(rotary_enabled /\ ticks' = ticks + 1 /\ k \div 8 = 1) =>
          /\ rotary.charge => k' \div 8 = 1
          /\ (rotary.charge /\ rotary'.charge) => rotary'.charge_end = rotary.charge_end
          /\ k' \div 8 = 0 => (~rotary.charge /\ ~rotary_in.charge)]_vars

\* C40 happens: K bit 3 has stayed 1 over three Clocks with the charge line
\* high, the turn of the paddle having changed since the charge began.
C40_Witness ==
    /\ rotary_enabled /\ ~panicked
    /\ k \div 8 = 1
    /\ rotary.charge /\ rotary_was.charge
    /\ now >= rotary.charge_end + 30
    /\ rotary_in.turn = 33
    /\ rotary.charge_end = 10

====
